---- MODULE Spec2Model ----
(***************************************************************************)
(* Model of the ComfyUI workflow translator (src/server/translator):       *)
(* ComfyTranslator.translate / translate_dict, WorkflowParser.parse with   *)
(* its four passes, PatternRecognizer.analyze and CodeGenerator.generate.  *)
(*                                                                         *)
(* Python values are modelled as records that carry their type tag, so     *)
(* that "1" and 1 are different dictionary keys, str() is a computation    *)
(* and comparing a str with an int is a TypeError.  A Python str that may  *)
(* serve as a node identifier is a sequence of character codes, which      *)
(* makes list.sort() on identifiers the code-point comparison it is.       *)
(***************************************************************************)
EXTENDS Integers, Sequences, FiniteSets, TLC

(***************************************************************************)
(* Bounds of the model.                                                    *)
(***************************************************************************)
\* largest number of node records in a document of the link-structure family
MaxNodes == 3

(***************************************************************************)
(* Python atoms: None, bool, int, str.  c holds the characters of a str.   *)
(***************************************************************************)
NoneA == [t |-> "none", n |-> 0, c |-> <<>>]
IntA(i) == [t |-> "int", n |-> i, c |-> <<>>]
BoolA(b) == [t |-> "bool", n |-> IF b THEN 1 ELSE 0, c |-> <<>>]
StrA(chars) == [t |-> "str", n |-> 0, c |-> chars]

\* decimal digits of a natural number, as character codes ('0' is 48)
RECURSIVE Digits(_)
Digits(i) == IF i < 10 THEN <<48 + i>> ELSE Digits(i \div 10) \o <<48 + (i % 10)>>

\* str(x) for an atom x: a str is returned as is, an int is printed in decimal
PyStr(a) ==
  CASE a.t = "str" -> a.c
    [] a.t = "int" -> IF a.n < 0 THEN <<45>> \o Digits(0 - a.n) ELSE Digits(a.n)
    [] a.t = "bool" -> IF a.n = 1 THEN <<84, 114, 117, 101>> ELSE <<70, 97, 108, 115, 101>>
    [] OTHER -> <<78, 111, 110, 101>>

\* a < b for two str values: comparison of code points, shorter prefix first
StrLess(a, b) ==
  \E k \in 1..Len(b) :
     /\ \A j \in 1..(k - 1) : j <= Len(a) /\ a[j] = b[j]
     /\ (k > Len(a) \/ a[k] < b[k])

(***************************************************************************)
(* JSON values of node inputs.  s is the text of a literal string, e the   *)
(* elements of an array.                                                   *)
(***************************************************************************)
NoneV == [t |-> "none", n |-> 0, s |-> "", e |-> <<>>]
IntV(i) == [t |-> "int", n |-> i, s |-> "", e |-> <<>>]
StrV(txt) == [t |-> "str", n |-> 0, s |-> txt, e |-> <<>>]
ListV(elems) == [t |-> "list", n |-> 0, s |-> "", e |-> elems]
\* the array [ref, idx] a document uses to link an input to an output
LinkV(ref, idx) == ListV(<<ref, IntA(idx)>>)

(***************************************************************************)
(* NodeInput, Node, WorkflowGraph (parser.py dataclasses).                 *)
(***************************************************************************)
NodeInput(name, value, is_link, source_node, source_output) ==
  [name |-> name, value |-> value, is_link |-> is_link,
   source_node |-> source_node, source_output |-> source_output]

\* Node whose execution_order field starts at 0 instead of -1
Node_DefaultZero(id, class_type, inputs) ==
  [id |-> id, class_type |-> class_type, inputs |-> inputs,
   output_connections |-> <<>>, execution_order |-> 0]

Node(id, class_type, inputs) ==
  [id |-> id, class_type |-> class_type, inputs |-> inputs,
   output_connections |-> <<>>, execution_order |-> -1]

WorkflowGraph ==
  [nodes |-> <<>>, root_nodes |-> <<>>, terminal_nodes |-> <<>>, execution_order |-> <<>>]

LOADER_NODES ==
  {"CheckpointLoaderSimple", "CheckpointLoader", "VAELoader", "LoraLoader",
   "LoraLoaderModelOnly", "ControlNetLoader", "CLIPLoader", "UNETLoader",
   "CLIPVisionLoader", "StyleModelLoader", "UpscaleModelLoader", "GLIGENLoader",
   "unCLIPCheckpointLoader", "DiffusersLoader", "IPAdapterModelLoader",
   "IPAdapterUnifiedLoader", "AnimateDiffLoaderWithContext"}

OUTPUT_NODES ==
  {"SaveImage", "PreviewImage", "SaveLatent", "PreviewLatent",
   "VHS_VideoCombine", "SaveAnimatedWEBP", "SaveAnimatedPNG"}

SAMPLER_NODES == {"KSampler", "KSamplerAdvanced", "SamplerCustom", "SamplerCustomAdvanced"}

CONDITIONING_NODES ==
  {"CLIPTextEncode", "CLIPTextEncodeSDXL", "ConditioningCombine", "ConditioningConcat",
   "ConditioningAverage", "ConditioningSetArea", "ConditioningSetMask",
   "ConditioningZeroOut", "ControlNetApply", "ControlNetApplyAdvanced",
   "unCLIPConditioning", "GLIGENTextBoxApply", "IPAdapterApply", "IPAdapterAdvanced"}

LATENT_NODES ==
  {"EmptyLatentImage", "VAEEncode", "VAEEncodeForInpaint", "LatentUpscale",
   "LatentUpscaleBy", "LatentComposite", "LatentBlend", "SetLatentNoiseMask"}

IMAGE_NODES ==
  {"LoadImage", "LoadImageMask", "VAEDecode", "VAEDecodeTiled", "ImageScale",
   "ImageScaleBy", "ImageUpscaleWithModel", "ImageInvert", "ImageBatch"}

get_node_category(class_type) ==
  CASE class_type \in LOADER_NODES -> "loader"
    [] class_type \in OUTPUT_NODES -> "output"
    [] class_type \in SAMPLER_NODES -> "sampler"
    [] class_type \in CONDITIONING_NODES -> "conditioning"
    [] class_type \in LATENT_NODES -> "latent"
    [] class_type \in IMAGE_NODES -> "image"
    [] OTHER -> "other"

\* position of key k in an insertion-ordered dict of nodes, 0 when absent
IndexOf(nodes, k) ==
  IF \E i \in 1..Len(nodes) : nodes[i].id = k
  THEN CHOOSE i \in 1..Len(nodes) : nodes[i].id = k
  ELSE 0

\* graph.nodes.get(k) is not None
HasNode(nodes, k) == IndexOf(nodes, k) # 0

\* node.inputs.get(name): position of the input called name, 0 when absent
InputIndex(node, name) ==
  IF \E i \in 1..Len(node.inputs) : node.inputs[i].name = name
  THEN CHOOSE i \in 1..Len(node.inputs) : node.inputs[i].name = name
  ELSE 0

(***************************************************************************)
(* WorkflowParser._parse_input                                             *)
(***************************************************************************)
_parse_input(name, value) ==
  IF /\ value.t = "list"
     /\ Len(value.e) = 2
     /\ value.e[1].t \in {"str", "int", "bool"}
     /\ value.e[2].t \in {"int", "bool"}
  THEN NodeInput(name, NoneV, TRUE, StrA(PyStr(value.e[1])), value.e[2])
  ELSE NodeInput(name, value, FALSE, NoneA, NoneA)

(***************************************************************************)
(* WorkflowParser._parse_node: node_data is a node record of the document  *)
(***************************************************************************)
_parse_node(node_id, node_data) ==
  Node(node_id,
       IF node_data.has_class THEN node_data.class_type ELSE "Unknown",
       [i \in 1..Len(node_data.inputs) |->
          _parse_input(node_data.inputs[i].name, node_data.inputs[i].value)])

(***************************************************************************)
(* WorkflowParser._resolve_links.  The loop visits the nodes and, within a *)
(* node, its inputs in insertion order and appends to the source node's    *)
(* output_connections, so the list of a source holds the links aimed at it *)
(* in visiting order.                                                      *)
(***************************************************************************)
\* the resolved links of one node, in input order
RECURSIVE NodeLinks(_, _, _)
NodeLinks(nodes, node, i) ==
  IF i > Len(node.inputs) THEN <<>>
  ELSE LET inp == node.inputs[i]
       IN (IF inp.is_link /\ inp.source_node.c # <<>> /\ HasNode(nodes, inp.source_node)
           THEN <<[source |-> inp.source_node, target |-> node.id,
                   input |-> inp.name, output |-> inp.source_output]>>
           ELSE <<>>) \o NodeLinks(nodes, node, i + 1)

\* the resolved links of the whole graph, in node order
RECURSIVE GraphLinks(_, _)
GraphLinks(nodes, i) ==
  IF i > Len(nodes) THEN <<>>
  ELSE NodeLinks(nodes, nodes[i], 1) \o GraphLinks(nodes, i + 1)

RECURSIVE ConnectionsOf(_, _)
ConnectionsOf(links, id) ==
  IF links = <<>> THEN <<>>
  ELSE (IF Head(links).source = id
        THEN <<[target |-> Head(links).target, input |-> Head(links).input,
                output |-> Head(links).output]>>
        ELSE <<>>) \o ConnectionsOf(Tail(links), id)

_resolve_links(nodes) ==
  LET links == GraphLinks(nodes, 1)
  IN [i \in 1..Len(nodes) |->
        [nodes[i] EXCEPT !.output_connections =
                           nodes[i].output_connections \o ConnectionsOf(links, nodes[i].id)]]

(***************************************************************************)
(* WorkflowParser._analyze_graph                                           *)
(***************************************************************************)
has_linked_input(node) == \E i \in 1..Len(node.inputs) : node.inputs[i].is_link

\* the test that takes a node for terminal only when nothing is connected to it
is_terminal_NoConnectionOnly(node) == node.output_connections = <<>>

is_terminal(node) == node.output_connections = <<>> \/ node.class_type \in OUTPUT_NODES

RECURSIVE RootIds(_, _)
RootIds(nodes, i) ==
  IF i > Len(nodes) THEN <<>>
  ELSE (IF has_linked_input(nodes[i]) THEN <<>> ELSE <<nodes[i].id>>) \o RootIds(nodes, i + 1)

RECURSIVE TerminalIds(_, _)
TerminalIds(nodes, i) ==
  IF i > Len(nodes) THEN <<>>
  ELSE (IF is_terminal(nodes[i]) THEN <<nodes[i].id>> ELSE <<>>) \o TerminalIds(nodes, i + 1)

(***************************************************************************)
(* WorkflowParser._compute_execution_order, helpers                        *)
(***************************************************************************)
\* number of inputs of the node that are links, resolved or not
LinkInputCount(node) == Cardinality({i \in 1..Len(node.inputs) : node.inputs[i].is_link})

\* in_degree after the counting loop; the comprehension that builds the
\* queue reads in_degree[nid] of every node, so every key is present
InitialInDegree(nodes) ==
  [id \in {nodes[i].id : i \in 1..Len(nodes)} |->
     LinkInputCount(nodes[IndexOf(nodes, id)])]

\* the queue filled with every node, whatever its link-input count
RECURSIVE InitialQueue_AllNodes(_, _, _)
InitialQueue_AllNodes(nodes, deg, i) ==
  IF i > Len(nodes) THEN <<>>
  ELSE <<nodes[i].id>> \o InitialQueue_AllNodes(nodes, deg, i + 1)

RECURSIVE InitialQueue(_, _, _)
InitialQueue(nodes, deg, i) ==
  IF i > Len(nodes) THEN <<>>
  ELSE (IF deg[nodes[i].id] = 0 THEN <<nodes[i].id>> ELSE <<>>)
       \o InitialQueue(nodes, deg, i + 1)

\* a < b as list.sort() compares two keys of the same type
IdLess(a, b) == IF a.t = "str" THEN StrLess(a.c, b.c) ELSE a.n < b.n

\* list.sort() compares a str with an int: TypeError
SortRaises(q) == \E i, j \in 1..Len(q) : (q[i].t = "str") # (q[j].t = "str")

Range(q) == {q[i] : i \in 1..Len(q)}

RECURSIVE SortedSet(_)
SortedSet(S) ==
  IF S = {} THEN <<>>
  ELSE LET m == CHOOSE x \in S : \A y \in S \ {x} : IdLess(x, y)
       IN <<m>> \o SortedSet(S \ {m})

\* queue.sort(); the queue never holds a key twice
SortQueue(q) == SortedSet(Range(q))

\* the loop without the test for zero: a target is enqueued at every decrement
RECURSIVE ReduceInDegree_NoZeroTest(_, _, _)
ReduceInDegree_NoZeroTest(conns, deg, q) ==
  IF conns = <<>> THEN [in_degree |-> deg, queue |-> q]
  ELSE LET t == Head(conns).target
       IN ReduceInDegree_NoZeroTest(Tail(conns), [deg EXCEPT ![t] = deg[t] - 1],
                                    Append(q, t))

\* the loop over node.output_connections: decrement, enqueue on zero
RECURSIVE ReduceInDegree(_, _, _)
ReduceInDegree(conns, deg, q) ==
  IF conns = <<>> THEN [in_degree |-> deg, queue |-> q]
  ELSE LET t == Head(conns).target
           d == deg[t] - 1
       IN ReduceInDegree(Tail(conns), [deg EXCEPT ![t] = d],
                         IF d = 0 THEN Append(q, t) ELSE q)

(***************************************************************************)
(* PatternRecognizer (patterns.py).  A config is a function from its keys  *)
(* to Python values; an outcome is a value, or the exception raised.       *)
(***************************************************************************)
BoolV(b) == [t |-> "bool", n |-> IF b THEN 1 ELSE 0, s |-> "", e |-> <<>>]
\* a float, held in hundredths: FloatC(75) is 0.75, FloatV(75) is 7.5
FloatC(hundredths) == [t |-> "float", n |-> hundredths, s |-> "", e |-> <<>>]
FloatV(tenths) == FloatC(10 * tenths)

PatternMatch(pattern_type, nodes, config) ==
  [pattern_type |-> pattern_type, nodes |-> nodes, config |-> config]

_get_input_value(node, input_name, default) ==
  LET i == InputIndex(node, input_name)
  IN IF i # 0 /\ ~node.inputs[i].is_link THEN node.inputs[i].value ELSE default

\* the first node, in iteration order, whose class is one of classes; 0 if none
FirstOfClass(nodes, classes) ==
  IF \E i \in 1..Len(nodes) : nodes[i].class_type \in classes
  THEN CHOOSE i \in 1..Len(nodes) :
         /\ nodes[i].class_type \in classes
         /\ \A j \in 1..(i - 1) : nodes[j].class_type \notin classes
  ELSE 0

\* the node an input links to: 0 when the input is absent, a literal or dangling
\* the lookup that follows the first link input of the node, whatever its name
LinkedNode_FirstLink(nodes, node, input_name) ==
  IF \E i \in 1..Len(node.inputs) : node.inputs[i].is_link
  THEN IndexOf(nodes, node.inputs[CHOOSE i \in 1..Len(node.inputs) :
                                     /\ node.inputs[i].is_link
                                     /\ \A j \in 1..(i - 1) : ~node.inputs[j].is_link].source_node)
  ELSE 0

LinkedNode(nodes, node, input_name) ==
  LET i == InputIndex(node, input_name)
  IN IF i # 0 /\ node.inputs[i].is_link
     THEN IndexOf(nodes, node.inputs[i].source_node)
     ELSE 0

\* x > 0 for a Python value x: defined on numbers only
GreaterZeroRaises(x) == x.t \notin {"int", "float", "bool"}

\* _has_refiner: "true", "false", or "raise" when start_step > 0 is a TypeError
RECURSIVE AdvancedScan(_, _)
AdvancedScan(nodes, i) ==
  IF i > Len(nodes) THEN "false"
  ELSE IF nodes[i].class_type # "KSamplerAdvanced" THEN AdvancedScan(nodes, i + 1)
  ELSE LET start_step == _get_input_value(nodes[i], "start_at_step", IntV(0))
       IN IF GreaterZeroRaises(start_step) THEN "raise"
          ELSE IF start_step.n > 0 THEN "true"
          ELSE AdvancedScan(nodes, i + 1)

_has_refiner(nodes) ==
  LET checkpoint_count ==
        Cardinality({i \in 1..Len(nodes) :
                       nodes[i].class_type \in {"CheckpointLoaderSimple", "CheckpointLoader"}})
  IN IF checkpoint_count >= 2 THEN "true" ELSE AdvancedScan(nodes, 1)

\* the prompt keys of the base config
PromptConfig(nodes, sampler, input_name, key) ==
  LET src == LinkedNode(nodes, sampler, input_name)
  IN IF src # 0 /\ nodes[src].class_type = "CLIPTextEncode"
     THEN key :> _get_input_value(nodes[src], "text", StrV(""))
     ELSE <<>>

\* _detect_base_pattern: [kind |-> "none"], [kind |-> "raise"] or
\* [kind |-> "match", pattern |-> PatternMatch]
_detect_base_pattern(nodes) ==
  LET ck == FirstOfClass(nodes, {"CheckpointLoaderSimple", "CheckpointLoader",
                                 "unCLIPCheckpointLoader"})
      sm == FirstOfClass(nodes, {"KSampler", "KSamplerAdvanced", "SamplerCustom"})
  IN IF ck = 0 \/ sm = 0 THEN [kind |-> "none"]
     ELSE
       LET checkpoint_node == nodes[ck]
           sampler_node == nodes[sm]
           latent_source == LinkedNode(nodes, sampler_node, "latent_image")
           is_img2img == /\ latent_source # 0
                         /\ nodes[latent_source].class_type \in {"VAEEncode", "VAEEncodeForInpaint"}
           config0 ==
             [checkpoint |-> _get_input_value(checkpoint_node, "ckpt_name", NoneV),
              steps |-> _get_input_value(sampler_node, "steps", IntV(20)),
              cfg |-> _get_input_value(sampler_node, "cfg", FloatV(75)),
              sampler |-> _get_input_value(sampler_node, "sampler_name", StrV("euler")),
              scheduler |-> _get_input_value(sampler_node, "scheduler", StrV("normal")),
              seed |-> _get_input_value(sampler_node, "seed", IntV(0)),
              denoise |-> _get_input_value(sampler_node, "denoise", FloatV(10))]
           prompts == PromptConfig(nodes, sampler_node, "positive", "positive_prompt")
                      @@ PromptConfig(nodes, sampler_node, "negative", "negative_prompt")
           dims ==
             IF /\ ~is_img2img
                /\ latent_source # 0
                /\ nodes[latent_source].class_type = "EmptyLatentImage"
             THEN [width |-> _get_input_value(nodes[latent_source], "width", IntV(512)),
                   height |-> _get_input_value(nodes[latent_source], "height", IntV(512)),
                   batch_size |-> _get_input_value(nodes[latent_source], "batch_size", IntV(1))]
             ELSE <<>>
           config == config0 @@ prompts @@ dims
           node_ids == <<checkpoint_node.id, sampler_node.id>>
           refiner == _has_refiner(nodes)
       IN CASE refiner = "raise" -> [kind |-> "raise"]
            [] refiner = "true" ->
                 [kind |-> "match",
                  pattern |-> PatternMatch("sdxl_refiner", node_ids,
                                           config @@ ("has_refiner" :> BoolV(TRUE)))]
            [] OTHER ->
                 [kind |-> "match",
                  pattern |-> PatternMatch(IF is_img2img THEN "img2img" ELSE "txt2img",
                                           node_ids, config)]

(***************************************************************************)
(* Modifier and post-processing patterns: one match per node of a trigger  *)
(* class, in iteration order.                                              *)
(***************************************************************************)
\* positions of the nodes whose class is one of classes, in iteration order
RECURSIVE NodesOfClass(_, _, _)
NodesOfClass(nodes, classes, i) ==
  IF i > Len(nodes) THEN <<>>
  ELSE (IF nodes[i].class_type \in classes THEN <<i>> ELSE <<>>)
       \o NodesOfClass(nodes, classes, i + 1)

\* "sub in class_type" for the preprocessor classes the model knows
CannyClasses == {"CannyEdgePreprocessor", "Canny"}
DepthClasses == {"DepthAnythingPreprocessor", "MiDaS-DepthMapPreprocessor"}
OpenPoseClasses == {"OpenPosePreprocessor", "DWPreprocessor"}
LineartClasses == {"LineartPreprocessor", "AnimeLineartPreprocessor"}

PreprocessorOf(class_type) ==
  CASE class_type \in CannyClasses -> StrV("canny")
    [] class_type \in DepthClasses -> StrV("depth")
    [] class_type \in OpenPoseClasses -> StrV("openpose")
    [] class_type \in LineartClasses -> StrV("lineart")
    [] OTHER -> NoneV

ControlNetConfig(nodes, node) ==
  LET loader == LinkedNode(nodes, node, "control_net")
      prep == LinkedNode(nodes, node, "image")
  IN [model |-> IF loader # 0 /\ nodes[loader].class_type = "ControlNetLoader"
                THEN _get_input_value(nodes[loader], "control_net_name", NoneV)
                ELSE NoneV,
      preprocessor |-> IF prep # 0 THEN PreprocessorOf(nodes[prep].class_type) ELSE NoneV,
      strength |-> _get_input_value(node, "strength", FloatV(10)),
      start_percent |-> _get_input_value(node, "start_percent", FloatV(0)),
      end_percent |-> _get_input_value(node, "end_percent", FloatV(10))]

_detect_controlnet(nodes) ==
  LET hits == NodesOfClass(nodes, {"ControlNetApply", "ControlNetApplyAdvanced",
                                   "ControlNetApplySD3"}, 1)
  IN [k \in 1..Len(hits) |->
        PatternMatch("controlnet", <<nodes[hits[k]].id>>, ControlNetConfig(nodes, nodes[hits[k]]))]

_detect_ipadapter(nodes) ==
  LET hits == NodesOfClass(nodes, {"IPAdapterApply", "IPAdapterAdvanced", "IPAdapterFaceID",
                                   "IPAdapterStyleComposition", "IPAdapterBatch"}, 1)
  IN [k \in 1..Len(hits) |->
        LET node == nodes[hits[k]]
        IN PatternMatch("ipadapter", <<node.id>>,
             [type |-> StrV(node.class_type),
              weight |-> _get_input_value(node, "weight", FloatV(10)),
              weight_type |-> _get_input_value(node, "weight_type", StrV("standard")),
              start_at |-> _get_input_value(node, "start_at", FloatV(0)),
              end_at |-> _get_input_value(node, "end_at", FloatV(10))])]

_detect_lora(nodes) ==
  LET hits == NodesOfClass(nodes, {"LoraLoader", "LoraLoaderModelOnly"}, 1)
  IN [k \in 1..Len(hits) |->
        LET node == nodes[hits[k]]
        IN PatternMatch("lora", <<node.id>>,
             [name |-> _get_input_value(node, "lora_name", NoneV),
              strength_model |-> _get_input_value(node, "strength_model", FloatV(10)),
              strength_clip |-> _get_input_value(node, "strength_clip", FloatV(10))])]

_detect_upscaling(nodes) ==
  LET latent == NodesOfClass(nodes, {"LatentUpscale", "LatentUpscaleBy"}, 1)
      model == NodesOfClass(nodes, {"ImageUpscaleWithModel"}, 1)
  IN [k \in 1..Len(latent) |->
        LET node == nodes[latent[k]]
        IN PatternMatch("upscale", <<node.id>>,
             [method |-> StrV("latent"),
              scale |-> _get_input_value(node, "scale_by", FloatV(15)),
              upscale_method |-> _get_input_value(node, "upscale_method", StrV("nearest-exact"))])]
     \o
     [k \in 1..Len(model) |->
        LET node == nodes[model[k]]
            loader == LinkedNode(nodes, node, "upscale_model")
        IN PatternMatch("upscale", <<node.id>>,
             [method |-> StrV("model"),
              model |-> IF loader # 0
                        THEN _get_input_value(nodes[loader], "model_name", NoneV)
                        ELSE NoneV])]

_detect_inpainting(nodes) ==
  LET hits == NodesOfClass(nodes, {"VAEEncodeForInpaint", "InpaintModelConditioning"}, 1)
  IN [k \in 1..Len(hits) |->
        LET node == nodes[hits[k]]
        IN PatternMatch("inpaint", <<node.id>>,
             [type |-> StrV("inpaint"),
              grow_mask |-> _get_input_value(node, "grow_mask_by", IntV(0))])]

\* analyze that appends a base pattern for every checkpoint loader
analyze_BasePerLoader(nodes) ==
  LET base_pattern == _detect_base_pattern(nodes)
      loaders == NodesOfClass(nodes, {"CheckpointLoaderSimple", "CheckpointLoader",
                                      "unCLIPCheckpointLoader"}, 1)
  IN IF base_pattern.kind = "raise" THEN [kind |-> "raise", patterns |-> <<>>]
     ELSE [kind |-> "list",
           patterns |-> (IF base_pattern.kind = "match"
                         THEN [k \in 1..Len(loaders) |-> base_pattern.pattern] ELSE <<>>)
                        \o _detect_controlnet(nodes)
                        \o _detect_ipadapter(nodes)
                        \o _detect_lora(nodes)
                        \o _detect_upscaling(nodes)
                        \o _detect_inpainting(nodes)]

\* PatternRecognizer.analyze: [kind |-> "raise"] or [kind |-> "list", patterns |-> ...]
analyze(nodes) ==
  LET base_pattern == _detect_base_pattern(nodes)
  IN IF base_pattern.kind = "raise" THEN [kind |-> "raise", patterns |-> <<>>]
     ELSE [kind |-> "list",
           patterns |-> (IF base_pattern.kind = "match" THEN <<base_pattern.pattern>> ELSE <<>>)
                        \o _detect_controlnet(nodes)
                        \o _detect_ipadapter(nodes)
                        \o _detect_lora(nodes)
                        \o _detect_upscaling(nodes)
                        \o _detect_inpainting(nodes)]

(***************************************************************************)
(* CodeGenerator (codegen.py).  A text is the sequence of its lines; a     *)
(* line carries, next to its text, the library names it uses and the names *)
(* an import statement on it binds.  '\n'.join(lines) is the sequence      *)
(* itself, '\n\n'.join(sections) puts one empty line between sections.     *)
(***************************************************************************)
Line(text, uses, binds) == [text |-> text, uses |-> uses, binds |-> binds]
\* a line that uses no library name
Plain(text) == Line(text, {}, {})

\* the characters of a str made of decimal digits
RECURSIVE AtomChars(_)
AtomChars(c) == IF c = <<>> THEN "" ELSE ToString(Head(c) - 48) \o AtomChars(Tail(c))

\* repr() of an element of an array
AtomRepr(a) ==
  CASE a.t = "str" -> "'" \o AtomChars(a.c) \o "'"
    [] a.t = "int" -> ToString(a.n)
    [] a.t = "bool" -> IF a.n = 1 THEN "True" ELSE "False"
    [] OTHER -> "None"

\* sep.join(parts)
RECURSIVE JoinText(_, _)
JoinText(parts, sep) ==
  IF parts = <<>> THEN ""
  ELSE IF Len(parts) = 1 THEN parts[1]
  ELSE parts[1] \o sep \o JoinText(Tail(parts), sep)

\* f"{v}": the text of a Python value inside an f-string
Fmt(v) ==
  CASE v.t = "str" -> v.s
    [] v.t = "int" -> ToString(v.n)
    [] v.t = "float" ->
         ToString(v.n \div 100) \o "."
         \o (IF v.n % 10 = 0 THEN ToString((v.n % 100) \div 10)
             ELSE IF v.n % 100 < 10 THEN "0" \o ToString(v.n % 100)
             ELSE ToString(v.n % 100))
    [] v.t = "bool" -> IF v.n = 1 THEN "True" ELSE "False"
    [] v.t = "list" -> "[" \o JoinText([i \in 1..Len(v.e) |-> AtomRepr(v.e[i])], ", ") \o "]"
    [] OTHER -> "None"

\* bool(v)
Truthy(v) ==
  CASE v.t = "str" -> v.s # ""
    [] v.t \in {"int", "float", "bool"} -> v.n # 0
    [] v.t = "list" -> v.e # <<>>
    [] OTHER -> FALSE

\* config.get(key, default)
Get(config, key, default) == IF key \in DOMAIN config THEN config[key] ELSE default

BaseTypes == {"txt2img", "img2img", "sdxl_refiner"}

\* next((p for p in patterns if p.pattern_type in (...)), None): position or 0
BaseOf(patterns) ==
  IF \E i \in 1..Len(patterns) : patterns[i].pattern_type \in BaseTypes
  THEN CHOOSE i \in 1..Len(patterns) :
         /\ patterns[i].pattern_type \in BaseTypes
         /\ \A j \in 1..(i - 1) : patterns[j].pattern_type \notin BaseTypes
  ELSE 0

\* [p for p in patterns if p.pattern_type in types]
OfType(patterns, types) == SelectSeq(patterns, LAMBDA p : p.pattern_type \in types)

\* the checkpoint names of the model in which 'xl' occurs after lower()
XLCheckpoints == {"sd_xl_base_1.0.safetensors", "sd_xl_refiner_1.0.safetensors", "SDXL-turbo.safetensors"}

\* 'xl' in str(v).lower()
ContainsXL(v) == v.t = "str" /\ v.s \in XLCheckpoints

(***************************************************************************)
(* CodeGenerator._generate_header                                          *)
(***************************************************************************)
ModifierLine(m) ==
  CASE m.pattern_type = "controlnet" ->
         Plain("#   - ControlNet (" \o Fmt(Get(m.config, "preprocessor", StrV("unknown"))) \o ")")
    [] m.pattern_type = "ipadapter" -> Plain("#   - IPAdapter")
    [] m.pattern_type = "lora" -> Plain("#   - LoRA: " \o Fmt(Get(m.config, "name", NoneV)))
    [] OTHER -> Plain("#   - Upscale (" \o Fmt(Get(m.config, "method", NoneV)) \o ")")

_generate_header(patterns) ==
  LET b == BaseOf(patterns)
      modifiers == OfType(patterns, {"controlnet", "ipadapter", "lora", "upscale"})
  IN <<Plain("# RawDiffusion Workflow"), Plain("# Converted from ComfyUI"), Plain("#")>>
     \o (IF b = 0 THEN <<>>
         ELSE <<Plain("# Type: " \o patterns[b].pattern_type)>>
              \o (IF Truthy(Get(patterns[b].config, "checkpoint", NoneV))
                  THEN <<Plain("# Model: " \o Fmt(Get(patterns[b].config, "checkpoint", NoneV)))>>
                  ELSE <<>>))
     \o (IF modifiers = <<>> THEN <<>>
         ELSE <<Plain("#"), Plain("# Modifiers:")>>
              \o [k \in 1..Len(modifiers) |-> ModifierLine(modifiers[k])])

(***************************************************************************)
(* CodeGenerator._generate_imports.  An import statement carries the       *)
(* character codes of its text, which sorted() compares.                   *)
(***************************************************************************)
Import(text, binds, c) == [text |-> text, binds |-> binds, c |-> c]

ImportTorch ==
  Import("import torch", {"torch"},
    <<105, 109, 112, 111, 114, 116, 32, 116, 111, 114, 99, 104>>)
ImportPath ==
  Import("from pathlib import Path", {"Path"},
    <<102, 114, 111, 109, 32, 112, 97, 116, 104, 108, 105, 98, 32, 105, 109,
      112, 111, 114, 116, 32, 80, 97, 116, 104>>)
ImportXLRefiner ==
  Import("from diffusers import StableDiffusionXLPipeline, StableDiffusionXLImg2ImgPipeline", {"StableDiffusionXLPipeline", "StableDiffusionXLImg2ImgPipeline"},
    <<102, 114, 111, 109, 32, 100, 105, 102, 102, 117, 115, 101, 114, 115,
      32, 105, 109, 112, 111, 114, 116, 32, 83, 116, 97, 98, 108, 101, 68,
      105, 102, 102, 117, 115, 105, 111, 110, 88, 76, 80, 105, 112, 101,
      108, 105, 110, 101, 44, 32, 83, 116, 97, 98, 108, 101, 68, 105, 102,
      102, 117, 115, 105, 111, 110, 88, 76, 73, 109, 103, 50, 73, 109, 103,
      80, 105, 112, 101, 108, 105, 110, 101>>)
ImportXL ==
  Import("from diffusers import StableDiffusionXLPipeline", {"StableDiffusionXLPipeline"},
    <<102, 114, 111, 109, 32, 100, 105, 102, 102, 117, 115, 101, 114, 115,
      32, 105, 109, 112, 111, 114, 116, 32, 83, 116, 97, 98, 108, 101, 68,
      105, 102, 102, 117, 115, 105, 111, 110, 88, 76, 80, 105, 112, 101,
      108, 105, 110, 101>>)
ImportSD ==
  Import("from diffusers import StableDiffusionPipeline", {"StableDiffusionPipeline"},
    <<102, 114, 111, 109, 32, 100, 105, 102, 102, 117, 115, 101, 114, 115,
      32, 105, 109, 112, 111, 114, 116, 32, 83, 116, 97, 98, 108, 101, 68,
      105, 102, 102, 117, 115, 105, 111, 110, 80, 105, 112, 101, 108, 105,
      110, 101>>)
ImportControlNetModel ==
  Import("from diffusers import ControlNetModel", {"ControlNetModel"},
    <<102, 114, 111, 109, 32, 100, 105, 102, 102, 117, 115, 101, 114, 115,
      32, 105, 109, 112, 111, 114, 116, 32, 67, 111, 110, 116, 114, 111,
      108, 78, 101, 116, 77, 111, 100, 101, 108>>)
ImportCv2 ==
  Import("import cv2", {"cv2"},
    <<105, 109, 112, 111, 114, 116, 32, 99, 118, 50>>)
ImportNumpy ==
  Import("import numpy as np", {"np"},
    <<105, 109, 112, 111, 114, 116, 32, 110, 117, 109, 112, 121, 32, 97,
      115, 32, 110, 112>>)
ImportDPT ==
  Import("from transformers import DPTForDepthEstimation, DPTImageProcessor", {"DPTForDepthEstimation", "DPTImageProcessor"},
    <<102, 114, 111, 109, 32, 116, 114, 97, 110, 115, 102, 111, 114, 109,
      101, 114, 115, 32, 105, 109, 112, 111, 114, 116, 32, 68, 80, 84, 70,
      111, 114, 68, 101, 112, 116, 104, 69, 115, 116, 105, 109, 97, 116,
      105, 111, 110, 44, 32, 68, 80, 84, 73, 109, 97, 103, 101, 80, 114,
      111, 99, 101, 115, 115, 111, 114>>)
ImportOpenpose ==
  Import("from controlnet_aux import OpenposeDetector", {"OpenposeDetector"},
    <<102, 114, 111, 109, 32, 99, 111, 110, 116, 114, 111, 108, 110, 101,
      116, 95, 97, 117, 120, 32, 105, 109, 112, 111, 114, 116, 32, 79, 112,
      101, 110, 112, 111, 115, 101, 68, 101, 116, 101, 99, 116, 111, 114>>)
ImportIPAdapter ==
  Import("from diffusers import IPAdapterMixin", {"IPAdapterMixin"},
    <<102, 114, 111, 109, 32, 100, 105, 102, 102, 117, 115, 101, 114, 115,
      32, 105, 109, 112, 111, 114, 116, 32, 73, 80, 65, 100, 97, 112, 116,
      101, 114, 77, 105, 120, 105, 110>>)
ImportPIL ==
  Import("from PIL import Image", {"Image"},
    <<102, 114, 111, 109, 32, 80, 73, 76, 32, 105, 109, 112, 111, 114, 116,
      32, 73, 109, 97, 103, 101>>)

\* x.startswith('import')
StartsWithImport(c) ==
  Len(c) >= 6 /\ SubSeq(c, 1, 6) = <<105, 109, 112, 111, 114, 116>>

\* the order of the key (not x.startswith('import'),) alone
ImportKeyLess_PrefixOnly(a, b) == StartsWithImport(a.c) /\ ~StartsWithImport(b.c)

\* the order of the key (not x.startswith('import'), x)
ImportKeyLess(a, b) ==
  \/ StartsWithImport(a.c) /\ ~StartsWithImport(b.c)
  \/ StartsWithImport(a.c) = StartsWithImport(b.c) /\ StrLess(a.c, b.c)

\* sorted(imports, key=...), a stable sort: an element goes before the first
\* element of greater key, behind the elements that came earlier with its key
InsertImport(sorted, x) ==
  LET greater == {i \in 1..Len(sorted) : ImportKeyLess(x, sorted[i])}
      at == IF greater = {} THEN Len(sorted) + 1
            ELSE CHOOSE i \in greater : \A j \in greater : i <= j
  IN SubSeq(sorted, 1, at - 1) \o <<x>> \o SubSeq(sorted, at, Len(sorted))

RECURSIVE SortImports(_)
SortImports(imports) ==
  IF imports = <<>> THEN <<>>
  ELSE InsertImport(SortImports(SubSeq(imports, 1, Len(imports) - 1)), imports[Len(imports)])

\* The order in which a set of str is iterated depends on the hashes of the
\* process.  The model draws it from these enumerations of the set: by text
\* upwards or downwards, started at any element.
RECURSIVE ByText(_)
ByText(S) ==
  IF S = {} THEN <<>>
  ELSE LET first == CHOOSE x \in S : \A y \in S \ {x} : StrLess(x.c, y.c)
       IN <<first>> \o ByText(S \ {first})

Rotations(q) == {SubSeq(q, k, Len(q)) \o SubSeq(q, 1, k - 1) : k \in 1..Len(q)}

IterationOrders(S) ==
  LET up == ByText(S)
      down == [k \in 1..Len(up) |-> up[Len(up) + 1 - k]]
  IN Rotations(up) \cup Rotations(down)

\* the import statements a ControlNet pattern asks for
PreprocessorImports(p) ==
  LET prep == Get(p.config, "preprocessor", NoneV)
  IN CASE prep = StrV("canny") -> {ImportCv2, ImportNumpy}
       [] prep = StrV("depth") -> {ImportDPT}
       [] prep = StrV("openpose") -> {ImportOpenpose}
       [] OTHER -> {}

\* set(imports)
ImportSet(patterns) ==
  LET b == BaseOf(patterns)
      controlnets == OfType(patterns, {"controlnet"})
      core == IF b = 0 THEN {}
              ELSE IF patterns[b].pattern_type = "sdxl_refiner" THEN {ImportXLRefiner}
              ELSE IF ContainsXL(Get(patterns[b].config, "checkpoint", StrV(""))) THEN {ImportXL}
              ELSE {ImportSD}
      controlnet == IF controlnets = <<>> THEN {}
                    ELSE {ImportControlNetModel}
                         \cup UNION {PreprocessorImports(controlnets[k]) : k \in 1..Len(controlnets)}
      ipadapter == IF OfType(patterns, {"ipadapter"}) = <<>> THEN {} ELSE {ImportIPAdapter}
      image == IF OfType(patterns, {"img2img", "controlnet", "ipadapter", "upscale"}) = <<>>
               THEN {} ELSE {ImportPIL}
  IN {ImportTorch, ImportPath} \cup core \cup controlnet \cup ipadapter \cup image

\* iteration is the order in which sorted() reads the set
_generate_imports(patterns, iteration) ==
  LET sorted == SortImports(iteration)
  IN [k \in 1..Len(sorted) |-> Line(sorted[k].text, {}, sorted[k].binds)]

(***************************************************************************)
(* CodeGenerator._generate_config                                          *)
(***************************************************************************)
BaseConfigLines(base) ==
  <<Plain("MODEL_PATH = \"" \o Fmt(Get(base.config, "checkpoint", StrV("model.safetensors"))) \o "\""),
    Plain("PROMPT = \"\"\""
          \o Fmt(Get(base.config, "positive_prompt", StrV("a beautiful landscape"))) \o "\"\"\""),
    Plain("NEGATIVE_PROMPT = \"\"\""
          \o Fmt(Get(base.config, "negative_prompt", StrV("blurry, low quality"))) \o "\"\"\""),
    Plain("STEPS = " \o Fmt(Get(base.config, "steps", IntV(20)))),
    Plain("CFG_SCALE = " \o Fmt(Get(base.config, "cfg", FloatV(75)))),
    Plain("SEED = " \o Fmt(Get(base.config, "seed", IntV(0)))),
    Plain("WIDTH = " \o Fmt(Get(base.config, "width", IntV(512)))),
    Plain("HEIGHT = " \o Fmt(Get(base.config, "height", IntV(512))))>>
  \o (IF base.pattern_type = "img2img"
      THEN <<Plain("DENOISE = " \o Fmt(Get(base.config, "denoise", FloatC(75))))>>
      ELSE <<>>)

\* the two configuration lines of ControlNet i (counted from 0)
ControlNetConfigLines(cn, i) ==
  <<Plain("CONTROLNET_" \o ToString(i) \o "_MODEL = \""
          \o Fmt(Get(cn.config, "model", StrV("controlnet"))) \o "\""),
    Plain("CONTROLNET_" \o ToString(i) \o "_STRENGTH = "
          \o Fmt(Get(cn.config, "strength", FloatV(10))))>>

\* the concatenation of the sequences of a sequence
RECURSIVE Flatten(_)
Flatten(seqs) == IF seqs = <<>> THEN <<>> ELSE Head(seqs) \o Flatten(Tail(seqs))

_generate_config(patterns) ==
  LET b == BaseOf(patterns)
      loras == OfType(patterns, {"lora"})
      controlnets == OfType(patterns, {"controlnet"})
  IN <<Plain("# Configuration")>>
     \o (IF b = 0 THEN <<>> ELSE BaseConfigLines(patterns[b]))
     \o (IF loras = <<>> THEN <<>>
         ELSE <<Plain(""), Plain("# LoRA Configuration"), Plain("LORAS = [")>>
              \o [k \in 1..Len(loras) |->
                    Plain("    (\"" \o Fmt(Get(loras[k].config, "name", StrV("lora.safetensors")))
                          \o "\", " \o Fmt(Get(loras[k].config, "strength_model", FloatV(10)))
                          \o "),")]
              \o <<Plain("]")>>)
     \o (IF controlnets = <<>> THEN <<>>
         ELSE <<Plain(""), Plain("# ControlNet Configuration")>>
              \o Flatten([k \in 1..Len(controlnets) |->
                            ControlNetConfigLines(controlnets[k], k - 1)]))

(***************************************************************************)
(* CodeGenerator._generate_model_loading                                   *)
(***************************************************************************)
\* checkpoint.lower() raises AttributeError unless checkpoint is a str
_generate_model_loading_raises(base) ==
  Get(base.config, "checkpoint", StrV("model.safetensors")).t # "str"

\* "controlnet_0, controlnet_1, ..." and the like, for k items
Numbered(prefix, suffix, k) ==
  JoinText([i \in 1..k |-> prefix \o ToString(i - 1) \o suffix], ", ")

_generate_model_loading(patterns, base) ==
  LET checkpoint == Get(base.config, "checkpoint", StrV("model.safetensors"))
      is_xl == ContainsXL(checkpoint) \/ base.pattern_type = "sdxl_refiner"
      controlnets == OfType(patterns, {"controlnet"})
  IN <<Plain("# Load model")>>
     \o (IF controlnets # <<>>
         THEN <<Plain("# Load ControlNet")>>
              \o [k \in 1..Len(controlnets) |->
                    Line("controlnet_" \o ToString(k - 1) \o " = ControlNetModel.from_pretrained(\""
                         \o Fmt(Get(controlnets[k].config, "model",
                                    StrV("lllyasviel/control_v11p_sd15_canny")))
                         \o "\", torch_dtype=dtype)",
                         {"ControlNetModel"}, {})]
              \o (IF is_xl
                  THEN <<Plain(""),
                         Line("pipe = StableDiffusionXLControlNetPipeline.from_single_file(",
                              {"StableDiffusionXLControlNetPipeline"}, {})>>
                  ELSE <<Plain(""),
                         Line("from diffusers import StableDiffusionControlNetPipeline",
                              {}, {"StableDiffusionControlNetPipeline"}),
                         Line("pipe = StableDiffusionControlNetPipeline.from_single_file(",
                              {"StableDiffusionControlNetPipeline"}, {})>>)
              \o <<Plain("    MODEL_PATH,")>>
              \o (IF Len(controlnets) = 1
                  THEN <<Plain("    controlnet=controlnet_0,")>>
                  ELSE <<Plain("    controlnet=["
                               \o Numbered("controlnet_", "", Len(controlnets)) \o "],")>>)
              \o <<Plain("    torch_dtype=dtype,"), Plain(")")>>
         ELSE (IF is_xl
               THEN <<Line("pipe = StableDiffusionXLPipeline.from_single_file(",
                           {"StableDiffusionXLPipeline"}, {})>>
               ELSE <<Line("pipe = StableDiffusionPipeline.from_single_file(",
                           {"StableDiffusionPipeline"}, {})>>)
              \o <<Plain("    MODEL_PATH,"), Plain("    torch_dtype=dtype,"), Plain(")")>>)
     \o <<Plain("pipe.to(device)"), Plain(""), Plain("# Memory optimization"),
          Plain("pipe.enable_model_cpu_offload()")>>

_generate_lora_loading(loras) ==
  <<Plain("# Load LoRAs"), Plain("for lora_name, lora_weight in LORAS:"),
    Plain("    pipe.load_lora_weights(lora_name)"),
    Plain("    pipe.fuse_lora(lora_scale=lora_weight)")>>

(***************************************************************************)
(* CodeGenerator._generate_controlnet_setup, _generate_ipadapter_setup     *)
(***************************************************************************)
\* the lines of ControlNet i (counted from 0)
ControlNetSetupLines(cn, i) ==
  LET prep == Get(cn.config, "preprocessor", StrV("canny"))
      n == ToString(i)
  IN CASE prep = StrV("canny") ->
            <<Plain(""), Plain("# Canny edge detection for ControlNet " \o n),
              Line("control_array = np.array(control_image)", {"np"}, {}),
              Line("control_array = cv2.Canny(control_array, 100, 200)", {"cv2"}, {}),
              Line("control_array = np.stack([control_array] * 3, axis=-1)", {"np"}, {}),
              Line("control_image_" \o n \o " = Image.fromarray(control_array)", {"Image"}, {})>>
       [] prep = StrV("depth") ->
            <<Plain(""), Plain("# Depth estimation for ControlNet " \o n),
              Line("depth_estimator = DPTForDepthEstimation.from_pretrained(\"Intel/dpt-large\")",
                   {"DPTForDepthEstimation"}, {}),
              Line("processor = DPTImageProcessor.from_pretrained(\"Intel/dpt-large\")",
                   {"DPTImageProcessor"}, {}),
              Plain("inputs = processor(control_image, return_tensors='pt')"),
              Line("with torch.no_grad():", {"torch"}, {}),
              Plain("    depth = depth_estimator(**inputs).predicted_depth"),
              Plain("control_image_" \o n \o " = depth  # Process as needed")>>
       [] prep = StrV("openpose") ->
            <<Plain(""), Plain("# OpenPose detection for ControlNet " \o n),
              Line("openpose = OpenposeDetector.from_pretrained('lllyasviel/Annotators')",
                   {"OpenposeDetector"}, {}),
              Plain("control_image_" \o n \o " = openpose(control_image)")>>
       [] OTHER ->
            <<Plain("control_image_" \o n \o " = control_image  # Preprocessor: " \o Fmt(prep))>>

\* the setup that prepares the image of the first ControlNet only
_generate_controlnet_setup_FirstOnly(controlnets) ==
  <<Plain("# Prepare ControlNet inputs"),
    Line("control_image = Image.open(\"input_image.png\")  # Your control image", {"Image"}, {})>>
  \o ControlNetSetupLines(controlnets[1], 0)

_generate_controlnet_setup(controlnets) ==
  <<Plain("# Prepare ControlNet inputs"),
    Line("control_image = Image.open(\"input_image.png\")  # Your control image", {"Image"}, {})>>
  \o Flatten([k \in 1..Len(controlnets) |-> ControlNetSetupLines(controlnets[k], k - 1)])

_generate_ipadapter_setup(ipadapters) ==
  <<Plain("# Setup IPAdapter"),
    Plain("pipe.load_ip_adapter(\"h94/IP-Adapter\", subfolder=\"models\", weight_name=\"ip-adapter_sd15.bin\")"),
    Line("ip_image = Image.open(\"reference_image.png\")  # Your reference image", {"Image"}, {})>>

(***************************************************************************)
(* CodeGenerator._generate_inference.  The arguments of the pipe(...) call *)
(* are keyword arguments, one on a line.                                   *)
(***************************************************************************)
Arg(name, value, uses) == [name |-> name, value |-> value, uses |-> uses]

\* the keyword arguments of the call, in the order the lines are appended
InferenceArgs(base, patterns) ==
  LET controlnets == OfType(patterns, {"controlnet"})
      ipadapters == OfType(patterns, {"ipadapter"})
  IN <<Arg("prompt", "PROMPT", {}), Arg("negative_prompt", "NEGATIVE_PROMPT", {})>>
     \o (IF base.pattern_type # "img2img"
         THEN <<Arg("width", "WIDTH", {}), Arg("height", "HEIGHT", {})>>
         ELSE <<Arg("image", "Image.open(\"input.png\")", {"Image"}),
                Arg("strength", "DENOISE", {})>>)
     \o <<Arg("num_inference_steps", "STEPS", {}), Arg("guidance_scale", "CFG_SCALE", {}),
          Arg("generator", "generator", {})>>
     \o (IF controlnets = <<>> THEN <<>>
         ELSE IF Len(controlnets) = 1
         THEN <<Arg("image", "control_image_0", {}),
                Arg("controlnet_conditioning_scale", "CONTROLNET_0_STRENGTH", {})>>
         ELSE <<Arg("image", "[" \o Numbered("control_image_", "", Len(controlnets)) \o "]", {}),
                Arg("controlnet_conditioning_scale",
                    "[" \o Numbered("CONTROLNET_", "_STRENGTH", Len(controlnets)) \o "]", {})>>)
     \o (IF ipadapters = <<>> THEN <<>> ELSE <<Arg("ip_adapter_image", "ip_image", {})>>)

_generate_inference(base, patterns) ==
  LET args == InferenceArgs(base, patterns)
  IN <<Plain("# Generate image"),
       Line("generator = torch.Generator(device).manual_seed(SEED)", {"torch"}, {}),
       Plain(""), Plain("image = pipe(")>>
     \o [k \in 1..Len(args) |->
           Line("    " \o args[k].name \o "=" \o args[k].value \o ",", args[k].uses, {})]
     \o <<Plain(").images[0]")>>

(***************************************************************************)
(* CodeGenerator._generate_upscaling                                       *)
(***************************************************************************)
UpscaleLines(up) ==
  IF Get(up.config, "method", NoneV) = StrV("model")
  THEN LET model == Fmt(Get(up.config, "model", StrV("RealESRGAN_x4plus")))
       IN <<Plain("# Using upscale model: " \o model),
            Line("from basicsr.archs.rrdbnet_arch import RRDBNet", {}, {"RRDBNet"}),
            Line("from realesrgan import RealESRGANer", {}, {"RealESRGANer"}),
            Plain(""),
            Line("upsampler = RealESRGANer(", {"RealESRGANer"}, {}),
            Plain("    model_path=\"" \o model \o "\","),
            Plain("    scale=4,"), Plain(")"),
            Line("image, _ = upsampler.enhance(np.array(image))", {"np"}, {}),
            Line("image = Image.fromarray(image)", {"Image"}, {})>>
  ELSE LET scale == Fmt(Get(up.config, "scale", IntV(2)))
       IN <<Plain("# Simple upscale by " \o scale \o "x"),
            Plain("new_size = (int(image.width * " \o scale \o "), int(image.height * "
                  \o scale \o "))"),
            Line("image = image.resize(new_size, Image.LANCZOS)", {"Image"}, {})>>

_generate_upscaling(upscales) ==
  <<Plain("# Upscale")>> \o Flatten([k \in 1..Len(upscales) |-> UpscaleLines(upscales[k])])

(***************************************************************************)
(* CodeGenerator._generate_main and generate                               *)
(***************************************************************************)
PlaceholderComment == "# Could not detect base generation pattern"

\* lines 209-212
SaveLines ==
  <<Plain("# Save output"), Plain("image.save(\"output.png\")"),
    Plain("print(\"Saved to output.png\")")>>

\* a part of the main body that is there when its patterns are, with the
\* empty line that follows it
Part(condition, lines) == IF condition THEN lines \o <<Plain("")>> ELSE <<>>

\* _generate_main that ends with the save lines in the placeholder branch too
_generate_main_PlaceholderThenSave(patterns) ==
  [kind |-> "str", lines |-> <<Plain(PlaceholderComment), Plain("")>> \o SaveLines]

\* _generate_main: [kind |-> "str", lines |-> ...], or the exception
_generate_main(patterns) ==
  LET b == BaseOf(patterns)
      loras == OfType(patterns, {"lora"})
      controlnets == OfType(patterns, {"controlnet"})
      ipadapters == OfType(patterns, {"ipadapter"})
      upscales == OfType(patterns, {"upscale"})
  IN IF b = 0 THEN [kind |-> "str", lines |-> <<Plain(PlaceholderComment)>>]
     ELSE IF _generate_model_loading_raises(patterns[b])
          THEN [kind |-> "raise", lines |-> <<>>]
          ELSE [kind |-> "str",
                lines |->
                  <<Plain("# Setup"),
                    Line("device = \"cuda\" if torch.cuda.is_available() else \"cpu\"",
                         {"torch"}, {}),
                    Line("dtype = torch.float16 if device == \"cuda\" else torch.float32",
                         {"torch"}, {}),
                    Plain("")>>
                  \o Part(TRUE, _generate_model_loading(patterns, patterns[b]))
                  \o Part(loras # <<>>, _generate_lora_loading(loras))
                  \o Part(controlnets # <<>>, _generate_controlnet_setup(controlnets))
                  \o Part(ipadapters # <<>>, _generate_ipadapter_setup(ipadapters))
                  \o Part(TRUE, _generate_inference(patterns[b], patterns))
                  \o Part(upscales # <<>>, _generate_upscaling(upscales))
                  \o SaveLines]

\* the texts of the lines
Text(lines) == [k \in 1..Len(lines) |-> lines[k].text]

\* '\n'.join(sections): no empty line between consecutive sections
JoinSections_NoBlankLine(sections) == Flatten(sections)

\* '\n\n'.join(sections): an empty line between consecutive sections
JoinSections(sections) ==
  IF sections = <<>> THEN <<>>
  ELSE Head(sections) \o Flatten([k \in 1..(Len(sections) - 1) |-> <<"">> \o sections[k + 1]])

\* CodeGenerator.generate: [kind |-> "str", text |-> the lines of the program],
\* or the exception
generate(patterns, iteration) ==
  LET main == _generate_main(patterns)
  IN IF main.kind = "raise" THEN [kind |-> "raise", text |-> <<>>]
     ELSE [kind |-> "str",
           text |-> JoinSections(<<Text(_generate_header(patterns)),
                                   Text(_generate_imports(patterns, iteration)),
                                   Text(_generate_config(patterns)),
                                   Text(main.lines)>>)]

(***************************************************************************)
(* Workflow documents.  A mapping document is the sequence of its items in *)
(* insertion order; a node record may lack class_type; its inputs are the  *)
(* items of the inputs mapping in insertion order.                         *)
(***************************************************************************)
NodeRecord(class_type, inputs) ==
  [has_class |-> TRUE, class_type |-> class_type, inputs |-> inputs]
BareRecord(inputs) ==
  [has_class |-> FALSE, class_type |-> "", inputs |-> inputs]
Item(key, data) == [key |-> key, data |-> data]
Mapping(items) == [kind |-> "dict", items |-> items]
\* a document that is a JSON array, number or string
NonMappings == {[kind |-> k, items |-> <<>>] : k \in {"list", "int", "str"}}

\* an optional input: absent, or one of the values
Opt(name, values) == {<<>>} \cup {<<[name |-> name, value |-> v]>> : v \in values}

\* ---- documents that vary the link structure ----
\* keys "2", "10", "1", 2, 10 in this document order
KeyPool == <<StrA(<<50>>), StrA(<<49, 48>>), StrA(<<49>>), IntA(2), IntA(10)>>

\* a link by string to each string key; a link by integer to "2" and to the
\* identifier 7, which no document holds
StrRefs == {LinkV(StrA(<<50>>), 0), LinkV(StrA(<<49, 48>>), 0), LinkV(StrA(<<49>>), 0)}
IntRefs == {LinkV(IntA(2), 1), LinkV(IntA(7), 1)}

GraphInputs == {a \o b : a \in Opt("model", StrRefs), b \in Opt("clip", IntRefs)}

RECURSIVE Ascending(_)
Ascending(S) ==
  IF S = {} THEN <<>>
  ELSE LET m == CHOOSE x \in S : \A y \in S : x <= y
       IN <<m>> \o Ascending(S \ {m})

\* the sets of positions of KeyPool a document may hold
KeySets == {T \in SUBSET (1..Len(KeyPool)) : T # {} /\ Cardinality(T) <= MaxNodes}

\* the document that holds the keys at the positions S, with inputs f[p] at p
GraphDoc(S, f) ==
  LET pos == Ascending(S)
  IN Mapping([i \in 1..Len(pos) |-> Item(KeyPool[pos[i]], BareRecord(f[pos[i]]))])

\* ---- documents that vary the loader and the sampler ----
CkptNames == {StrV("v1-5-pruned-emaonly.safetensors"), StrV("sd_xl_base_1.0.safetensors"),
              IntV(5), LinkV(StrA(<<50>>), 0)}
StartSteps == {IntV(0), IntV(20), StrV("5"), NoneV}

LoaderRecords ==
  {NodeRecord(c, i) : c \in {"CheckpointLoaderSimple", "unCLIPCheckpointLoader"},
                      i \in Opt("ckpt_name", CkptNames)}
SamplerRecords ==
  {NodeRecord(c, m \o st) :
     c \in {"KSampler", "KSamplerAdvanced"},
     m \in Opt("model", {LinkV(StrA(<<49>>), 0), LinkV(StrA(<<50>>), 0)}),
     st \in Opt("start_at_step", StartSteps)}
SecondLoaderRecords ==
  {NodeRecord("CheckpointLoaderSimple",
              <<[name |-> "ckpt_name", value |-> StrV("sd_xl_refiner_1.0.safetensors")]>>)}
SecondSamplerRecords ==
  {NodeRecord("SamplerCustom", <<[name |-> "steps", value |-> IntV(8)]>>)}

\* an optional item under the given key
OptItem(key, records) == {<<>>} \cup {<<Item(key, r)>> : r \in records}

\* ---- documents that vary the shape of one input value ----
\* ["1", 0], [1, 0], ["1", -1], ["1", true], [true, 0], ["1"], ["1", 0, 0],
\* [null, 0], ["1", "0"], [], 5, "x", null
ShapeValues ==
  {LinkV(StrA(<<49>>), 0), LinkV(IntA(1), 0), LinkV(StrA(<<49>>), -1),
   ListV(<<StrA(<<49>>), BoolA(TRUE)>>), ListV(<<BoolA(TRUE), IntA(0)>>),
   ListV(<<StrA(<<49>>)>>), ListV(<<StrA(<<49>>), IntA(0), IntA(0)>>),
   ListV(<<NoneA, IntA(0)>>), ListV(<<StrA(<<49>>), StrA(<<48>>)>>), ListV(<<>>),
   IntV(5), StrV("x"), NoneV}

\* node "1" without inputs, node "2" with the input x
ShapeDoc(v) ==
  Mapping(<<Item(StrA(<<49>>), BareRecord(<<>>)),
            Item(StrA(<<50>>), BareRecord(<<[name |-> "x", value |-> v]>>))>>)

\* ---- documents that vary the base pattern and its modifiers ----
\* the key "1" .. "9", a link to output 0 of that node, one input
Key(i) == StrA(<<48 + i>>)
Ref(i) == LinkV(Key(i), 0)
In(name, value) == <<[name |-> name, value |-> value]>>

\* an EmptyLatentImage that gives the width and the height
EmptyLatent == NodeRecord("EmptyLatentImage", In("width", IntV(768)) \o In("height", IntV(512)))

\* "1": the checkpoint loader, "2": the sampler, "3": its prompt
BaseItems ==
  {<<>>} \cup
  {<<Item(Key(1), NodeRecord("CheckpointLoaderSimple", In("ckpt_name", StrV(name)))),
     Item(Key(2), NodeRecord("KSampler", In("positive", Ref(3)) \o In("latent_image", Ref(4))
                                         \o In("steps", IntV(30)))),
     Item(Key(3), NodeRecord("CLIPTextEncode", In("text", StrV("a cat"))))>> :
   name \in {"v1-5-pruned-emaonly.safetensors", "sd_xl_base_1.0.safetensors"}}

\* "4": what latent_image of the sampler links to
LatentItems ==
  {<<Item(Key(4), EmptyLatent)>>, <<Item(Key(4), NodeRecord("VAEEncode", <<>>))>>}

\* "5": a ControlNet with its loader "6" and the node "7" its image comes from
PreprocessorClasses ==
  {"CannyEdgePreprocessor", "DepthAnythingPreprocessor", "OpenPosePreprocessor",
   "LineartPreprocessor", "LoadImage"}
ControlNetItems ==
  {<<>>} \cup
  {<<Item(Key(5), NodeRecord("ControlNetApply", In("control_net", Ref(6)) \o In("image", Ref(7))
                                                \o In("strength", FloatV(8)))),
     Item(Key(6), NodeRecord("ControlNetLoader", In("control_net_name", StrV("control_v11p.pth")))),
     Item(Key(7), NodeRecord(c, <<>>))>> : c \in PreprocessorClasses}

\* "8": a second ControlNet, without loader and preprocessor
SecondControlNetItems ==
  {<<>>, <<Item(Key(8), NodeRecord("ControlNetApplyAdvanced", <<>>))>>}

\* "9": an up-scale, by model (the loader is the node "6") or of the latent
UpscaleItems ==
  {<<>>,
   <<Item(Key(9), NodeRecord("ImageUpscaleWithModel", In("upscale_model", Ref(6))))>>,
   <<Item(Key(9), NodeRecord("LatentUpscaleBy", In("scale_by", IntV(2))))>>}

\* "10", "11": an IPAdapter, a LoRA
IPAdapterItems ==
  {<<>>, <<Item(StrA(<<49, 48>>), NodeRecord("IPAdapterApply", <<>>))>>}
LoraItems ==
  {<<>>, <<Item(StrA(<<49, 49>>), NodeRecord("LoraLoader", In("lora_name", StrV("style.safetensors"))
                                                          \o In("strength_model", FloatV(8))))>>}

\* ---- documents that vary the literals of the sampler ----
\* an input that is absent, one of the literals, or a link to the node "1"
Choice(name, literals) == Opt(name, literals \cup {Ref(1)})

SamplerInputs ==
  {st \o cf \o sn \o sc \o sd \o dn :
     st \in Choice("steps", {IntV(30)}),
     cf \in Choice("cfg", {FloatV(80)}),
     sn \in Choice("sampler_name", {StrV("dpmpp_2m")}),
     sc \in Choice("scheduler", {StrV("karras")}),
     sd \in Choice("seed", {IntV(42), NoneV}),
     dn \in Choice("denoise", {FloatC(75)})}

\* the node latent_image links to
LatentRecords ==
  {NodeRecord("EmptyLatentImage", w \o h \o b) :
     w \in Choice("width", {IntV(768), LinkV(Key(1), -1)}),
     h \in Opt("height", {IntV(1024)}),
     b \in Opt("batch_size", {IntV(4)})}
  \cup {NodeRecord("VAEEncode", <<>>), NodeRecord("LoadImage", <<>>)}

SamplerDoc(inputs, latent) ==
  Mapping(<<Item(Key(1), NodeRecord("CheckpointLoaderSimple",
                                    In("ckpt_name", StrV("v1-5-pruned-emaonly.safetensors")))),
            Item(Key(2), NodeRecord("KSampler", In("latent_image", Ref(3)) \o inputs)),
            Item(Key(3), latent)>>)

\* two-element arrays as the steps of the sampler: ["1", -1], ["1", true]
ArraySteps == Opt("steps", {LinkV(Key(1), -1), ListV(<<Key(1), BoolA(TRUE)>>)})

\* ---- documents of classes that are in no registry ----
\* three classes the recognizer looks for, and one it does not
UnregisteredClasses ==
  {"IPAdapterFaceID", "ControlNetApplySD3", "InpaintModelConditioning", "MyCustomNode"}

UnregisteredDoc(c1, c2) ==
  Mapping(<<Item(Key(1), NodeRecord(c1, <<>>)),
            Item(Key(2), NodeRecord(c2, In("image", Ref(1))))>>)

\* ---- documents of a loader, a sampler and the source of its latent ----
\* latent_image absent, linked to node "3", linked to no node, or a literal
LatentImages == Opt("latent_image", {Ref(3), Ref(9), StrV("latent.png")})

LatentSourceClasses == {"VAEEncode", "VAEEncodeForInpaint", "EmptyLatentImage"}

LatentSourceDoc(latent_image, c) ==
  Mapping(<<Item(Key(1), NodeRecord("CheckpointLoaderSimple",
                                    In("ckpt_name", StrV("v1-5-pruned-emaonly.safetensors")))),
            Item(Key(2), NodeRecord("KSampler", In("model", Ref(1)) \o latent_image)),
            Item(Key(3), NodeRecord(c, <<>>))>>)

\* ---- documents of a base pattern and three ControlNets ----
ThreeControlNetDoc(ckpt_name, latent) ==
  Mapping(<<Item(Key(1), NodeRecord("CheckpointLoaderSimple", In("ckpt_name", StrV(ckpt_name)))),
            Item(Key(2), NodeRecord("KSampler", In("latent_image", Ref(3)))),
            Item(Key(3), NodeRecord(latent, <<>>)),
            Item(Key(4), NodeRecord("ControlNetApply", In("image", Ref(7)))),
            Item(Key(5), NodeRecord("ControlNetApplyAdvanced", In("strength", FloatV(8)))),
            Item(Key(6), NodeRecord("ControlNetApplySD3", In("image", Ref(8)))),
            Item(Key(7), NodeRecord("OpenPosePreprocessor", <<>>)),
            Item(Key(8), NodeRecord("DepthAnythingPreprocessor", <<>>))>>)

\* ---- documents of two up-scale nodes ----
UpscaleClasses == {"ImageUpscaleWithModel", "LatentUpscaleBy", "LatentUpscale"}

UpscaleDoc(c1, c2) ==
  Mapping(<<Item(Key(1), NodeRecord(c1, <<>>)), Item(Key(2), NodeRecord(c2, <<>>))>>)

\* ---- documents of one source and one target ----
\* the identifier of the source: a digit, or the empty string
SourceKeys == {Key(1), StrA(<<>>)}

\* the target links to the source by none, one or two of its inputs, twice to
\* the same output or to two outputs
ConnectionInputs(k) ==
  {a \o b : a \in Opt("images", {LinkV(k, 0)}),
            b \in Opt("mask", {LinkV(k, 0), LinkV(k, 1)})}

\* the source is of a class of OUTPUT_NODES or of another class
ConnectionDoc(k, c, inputs) ==
  Mapping(<<Item(k, NodeRecord(c, <<>>)),
            Item(Key(2), NodeRecord("PreviewImage", inputs))>>)

\* json.loads gives mappings with str keys only, and any array, number or string
IsJson(d) == \A i \in 1..Len(d.items) : d.items[i].key.t = "str"

(***************************************************************************)
(* State                                                                   *)
(***************************************************************************)
VARIABLES
  pc,             \* the statement of translate / translate_dict to run next
  workflow,       \* the argument: [ok |-> the text is JSON, value |-> the document]
  graph,          \* the WorkflowGraph parse is building
  in_degree,      \* locals of _compute_execution_order
  queue,
  order,
  order_idx,
  patterns,       \* the list analyze returned
  result          \* what the call returned or raised

vars == <<pc, workflow, graph, in_degree, queue, order, order_idx, patterns, result>>

NoResult == [kind |-> "none", text |-> <<>>, exc |-> "", at |-> ""]
Returned(text) == [kind |-> "str", text |-> text, exc |-> "", at |-> ""]
Raised(exc, at) == [kind |-> "raise", text |-> <<>>, exc |-> exc, at |-> at]

\* the document d is handed to translate_dict, or as JSON text to translate
Submit(d) ==
  /\ workflow = [ok |-> TRUE, value |-> d]
  /\ pc \in (IF IsJson(d) THEN {"translate", "translate_dict"} ELSE {"translate_dict"})

Init ==
  /\ \/ \E S \in KeySets : \E f \in [S -> GraphInputs] : Submit(GraphDoc(S, f))
     \/ \E a \in OptItem(StrA(<<49>>), LoaderRecords),
           b \in OptItem(StrA(<<50>>), SamplerRecords),
           c \in OptItem(StrA(<<51>>), SecondLoaderRecords),
           d \in OptItem(StrA(<<52>>), SecondSamplerRecords) :
          Submit(Mapping(a \o b \o c \o d))
     \/ \E v \in ShapeValues : Submit(ShapeDoc(v))
     \/ \E a \in BaseItems, b \in LatentItems, c \in ControlNetItems,
           d \in SecondControlNetItems, e \in UpscaleItems, f \in IPAdapterItems,
           g \in LoraItems : Submit(Mapping(a \o b \o c \o d \o e \o f \o g))
     \/ \E i \in SamplerInputs, l \in {EmptyLatent, NodeRecord("VAEEncode", <<>>)} :
           Submit(SamplerDoc(i, l))
     \/ \E i \in ArraySteps, l \in LatentRecords : Submit(SamplerDoc(i, l))
     \/ \E c1, c2 \in UnregisteredClasses : Submit(UnregisteredDoc(c1, c2))
     \/ \E l \in LatentImages, c \in LatentSourceClasses : Submit(LatentSourceDoc(l, c))
     \/ \E n \in {"v1-5-pruned-emaonly.safetensors", "sd_xl_base_1.0.safetensors"},
           l \in {"EmptyLatentImage", "VAEEncode"} : Submit(ThreeControlNetDoc(n, l))
     \/ \E c1, c2 \in UpscaleClasses : Submit(UpscaleDoc(c1, c2))
     \/ \E k \in SourceKeys, c \in {"SaveImage", "LoadImage"} :
          \E i \in ConnectionInputs(k) : Submit(ConnectionDoc(k, c, i))
     \/ \E d \in NonMappings : Submit(d)
     \/ \* text that is not JSON
        /\ workflow = [ok |-> FALSE, value |-> Mapping(<<>>)]
        /\ pc = "translate"
  /\ graph = WorkflowGraph
  /\ in_degree = <<>>
  /\ queue = <<>>
  /\ order = <<>>
  /\ order_idx = 0
  /\ patterns = <<>>
  /\ result = NoResult

(***************************************************************************)
(* ComfyTranslator.translate: json.loads, then translate_dict; only        *)
(* JSONDecodeError is caught.                                              *)
(***************************************************************************)
Translate ==
  /\ pc = "translate"
  /\ IF workflow.ok
     THEN /\ pc' = "translate_dict"
          /\ result' = result
     ELSE /\ pc' = "returned"
          /\ result' = Returned(<<"# Error: Invalid JSON">>)
  /\ UNCHANGED <<workflow, graph, in_degree, queue, order, order_idx, patterns>>

(***************************************************************************)
(* WorkflowParser.parse, first pass: workflow_json.items() and _parse_node *)
(***************************************************************************)
Parse ==
  /\ pc = "translate_dict"
  /\ IF workflow.value.kind # "dict"
     THEN /\ pc' = "raised"
          /\ result' = Raised("AttributeError", "workflow_json.items")
          /\ graph' = graph
     ELSE /\ pc' = "_resolve_links"
          /\ result' = result
          /\ graph' = [WorkflowGraph EXCEPT !.nodes =
                         [i \in 1..Len(workflow.value.items) |->
                            _parse_node(workflow.value.items[i].key,
                                        workflow.value.items[i].data)]]
  /\ UNCHANGED <<workflow, in_degree, queue, order, order_idx, patterns>>

\* second pass
ResolveLinks ==
  /\ pc = "_resolve_links"
  /\ graph' = [graph EXCEPT !.nodes = _resolve_links(graph.nodes)]
  /\ pc' = "_analyze_graph"
  /\ UNCHANGED <<workflow, in_degree, queue, order, order_idx, patterns, result>>

\* third pass
AnalyzeGraph ==
  /\ pc = "_analyze_graph"
  /\ graph' = [graph EXCEPT !.root_nodes = RootIds(graph.nodes, 1),
                            !.terminal_nodes = TerminalIds(graph.nodes, 1)]
  /\ pc' = "_compute_execution_order"
  /\ UNCHANGED <<workflow, in_degree, queue, order, order_idx, patterns, result>>

(***************************************************************************)
(* fourth pass, WorkflowParser._compute_execution_order                    *)
(***************************************************************************)
\* lines 175-184: count the link inputs, fill the queue
ComputeExecutionOrder ==
  /\ pc = "_compute_execution_order"
  /\ in_degree' = InitialInDegree(graph.nodes)
  /\ queue' = InitialQueue(graph.nodes, in_degree', 1)
  /\ order' = <<>>
  /\ order_idx' = 0
  /\ pc' = "while queue"
  /\ UNCHANGED <<workflow, graph, patterns, result>>

\* lines 186-200: one iteration of the while loop
ScheduleNode ==
  /\ pc = "while queue"
  /\ queue # <<>>
  /\ IF SortRaises(queue)
     THEN /\ pc' = "raised"
          /\ result' = Raised("TypeError", "queue.sort")
          /\ UNCHANGED <<graph, in_degree, queue, order, order_idx>>
     ELSE LET sorted == SortQueue(queue)
              node_id == Head(sorted)
              n == IndexOf(graph.nodes, node_id)
              reduced == ReduceInDegree(graph.nodes[n].output_connections,
                                        in_degree, Tail(sorted))
          IN /\ order' = Append(order, node_id)
             /\ graph' = [graph EXCEPT !.nodes[n].execution_order = order_idx]
             /\ order_idx' = order_idx + 1
             /\ in_degree' = reduced.in_degree
             /\ queue' = reduced.queue
             /\ UNCHANGED <<pc, result>>
  /\ UNCHANGED <<workflow, patterns>>

\* line 202, and parse returns the graph
FinishExecutionOrder ==
  /\ pc = "while queue"
  /\ queue = <<>>
  /\ graph' = [graph EXCEPT !.execution_order = order]
  /\ pc' = "analyze"
  /\ UNCHANGED <<workflow, in_degree, queue, order, order_idx, patterns, result>>

(***************************************************************************)
(* translate_dict: self.recognizer.analyze(graph)                          *)
(***************************************************************************)
Analyze ==
  /\ pc = "analyze"
  /\ LET found == analyze(graph.nodes)
     IN IF found.kind = "raise"
        THEN /\ pc' = "raised"
             /\ result' = Raised("TypeError", "_has_refiner")
             /\ patterns' = patterns
        ELSE /\ pc' = "generate"
             /\ result' = result
             /\ patterns' = found.patterns
  /\ UNCHANGED <<workflow, graph, in_degree, queue, order, order_idx>>

(***************************************************************************)
(* translate_dict: self.codegen.generate(graph, patterns), and return      *)
(***************************************************************************)
Generate ==
  /\ pc = "generate"
  /\ \E iteration \in IterationOrders(ImportSet(patterns)) :
       LET code == generate(patterns, iteration)
       IN IF code.kind = "raise"
          THEN /\ pc' = "raised"
               /\ result' = Raised("AttributeError", "_generate_model_loading")
          ELSE /\ pc' = "returned"
               /\ result' = Returned(code.text)
  /\ UNCHANGED <<workflow, graph, in_degree, queue, order, order_idx, patterns>>

Next ==
  \/ Translate
  \/ Parse
  \/ ResolveLinks
  \/ AnalyzeGraph
  \/ ComputeExecutionOrder
  \/ ScheduleNode
  \/ FinishExecutionOrder
  \/ Analyze
  \/ Generate

Spec == Init /\ [][Next]_vars

(***************************************************************************)
(* Two translations at a time.  A call of translate has its arguments and  *)
(* its locals in its own frame; the WorkflowGraph that parse creates       *)
(* (parser.py line 100) is an object of the heap.  Here every variable     *)
(* holds one value for each call, and graph is the heap of the graphs.     *)
(***************************************************************************)
Calls == {1, 2}

\* the graph object the call works on: graph = WorkflowGraph() creates a
\* shared one for all calls
GraphObject_Shared(call) == 1

\* the graph object the call works on: parse keeps one graph for each document
\* and hands it out again when the document comes a second time
GraphObject_PerDocument(call) == IF workflow[1] = workflow[2] THEN 1 ELSE call

\* the graph object the call works on: graph = WorkflowGraph() creates its own
GraphObject(call) == call

StartFrame(w) ==
  [pc |-> "translate", workflow |-> w, graph |-> WorkflowGraph, in_degree |-> <<>>,
   queue |-> <<>>, order |-> <<>>, order_idx |-> 0, patterns |-> <<>>, result |-> NoResult]

\* the statements of a translation, each on the frame of its call
TranslateStep(f) ==
  IF f.workflow.ok THEN [f EXCEPT !.pc = "translate_dict"]
  ELSE [f EXCEPT !.pc = "returned", !.result = Returned(<<"# Error: Invalid JSON">>)]

ParseStep(f) ==
  IF f.workflow.value.kind # "dict"
  THEN [f EXCEPT !.pc = "raised", !.result = Raised("AttributeError", "workflow_json.items")]
  ELSE [f EXCEPT !.pc = "_resolve_links",
                 !.graph = [WorkflowGraph EXCEPT !.nodes =
                              [i \in 1..Len(f.workflow.value.items) |->
                                 _parse_node(f.workflow.value.items[i].key,
                                             f.workflow.value.items[i].data)]]]

ResolveLinksStep(f) ==
  [f EXCEPT !.pc = "_analyze_graph", !.graph.nodes = _resolve_links(f.graph.nodes)]

AnalyzeGraphStep(f) ==
  [f EXCEPT !.pc = "_compute_execution_order",
            !.graph.root_nodes = RootIds(f.graph.nodes, 1),
            !.graph.terminal_nodes = TerminalIds(f.graph.nodes, 1)]

ComputeExecutionOrderStep(f) ==
  [f EXCEPT !.pc = "while queue",
            !.in_degree = InitialInDegree(f.graph.nodes),
            !.queue = InitialQueue(f.graph.nodes, InitialInDegree(f.graph.nodes), 1),
            !.order = <<>>,
            !.order_idx = 0]

ScheduleNodeStep(f) ==
  IF SortRaises(f.queue)
  THEN [f EXCEPT !.pc = "raised", !.result = Raised("TypeError", "queue.sort")]
  ELSE LET sorted == SortQueue(f.queue)
           node_id == Head(sorted)
           n == IndexOf(f.graph.nodes, node_id)
           reduced == ReduceInDegree(f.graph.nodes[n].output_connections,
                                     f.in_degree, Tail(sorted))
       IN [f EXCEPT !.order = Append(f.order, node_id),
                    !.graph.nodes[n].execution_order = f.order_idx,
                    !.order_idx = f.order_idx + 1,
                    !.in_degree = reduced.in_degree,
                    !.queue = reduced.queue]

FinishExecutionOrderStep(f) ==
  [f EXCEPT !.pc = "analyze", !.graph.execution_order = f.order]

AnalyzeStep(f) ==
  LET found == analyze(f.graph.nodes)
  IN IF found.kind = "raise"
     THEN [f EXCEPT !.pc = "raised", !.result = Raised("TypeError", "_has_refiner")]
     ELSE [f EXCEPT !.pc = "generate", !.patterns = found.patterns]

\* iteration is the order in which sorted() reads the set of imports
GenerateStep(f, iteration) ==
  LET code == generate(f.patterns, iteration)
  IN IF code.kind = "raise"
     THEN [f EXCEPT !.pc = "raised",
                    !.result = Raised("AttributeError", "_generate_model_loading")]
     ELSE [f EXCEPT !.pc = "returned", !.result = Returned(code.text)]

\* the frame of a call
FrameOf(call) ==
  [pc |-> pc[call], workflow |-> workflow[call], graph |-> graph[GraphObject(call)],
   in_degree |-> in_degree[call], queue |-> queue[call], order |-> order[call],
   order_idx |-> order_idx[call], patterns |-> patterns[call], result |-> result[call]]

\* the call is at the statement label, and the statement leaves the frame f
CallStep(call, label, f) ==
  /\ pc[call] = label
  /\ pc' = [pc EXCEPT ![call] = f.pc]
  /\ graph' = [graph EXCEPT ![GraphObject(call)] = f.graph]
  /\ in_degree' = [in_degree EXCEPT ![call] = f.in_degree]
  /\ queue' = [queue EXCEPT ![call] = f.queue]
  /\ order' = [order EXCEPT ![call] = f.order]
  /\ order_idx' = [order_idx EXCEPT ![call] = f.order_idx]
  /\ patterns' = [patterns EXCEPT ![call] = f.patterns]
  /\ result' = [result EXCEPT ![call] = f.result]
  /\ UNCHANGED workflow

\* ---- the documents of the two calls ----
\* a link and a cycle; a canny ControlNet and an up-scale on an XL checkpoint;
\* an img2img base with a LoRA; a loader without ckpt_name; a JSON array
ConcurrentDocs ==
  {GraphDoc({1, 2, 3}, (1 :> In("model", LinkV(StrA(<<49, 48>>), 0))) @@ (2 :> <<>>)
                       @@ (3 :> In("model", LinkV(StrA(<<49>>), 0)))),
   Mapping(<<Item(Key(1), NodeRecord("CheckpointLoaderSimple",
                                     In("ckpt_name", StrV("sd_xl_base_1.0.safetensors")))),
             Item(Key(2), NodeRecord("KSampler", In("latent_image", Ref(4)))),
             Item(Key(4), EmptyLatent),
             Item(Key(5), NodeRecord("ControlNetApply", In("image", Ref(7)))),
             Item(Key(7), NodeRecord("CannyEdgePreprocessor", <<>>)),
             Item(Key(9), NodeRecord("LatentUpscaleBy", <<>>))>>),
   Mapping(<<Item(Key(1), NodeRecord("CheckpointLoaderSimple",
                                     In("ckpt_name", StrV("v1-5-pruned-emaonly.safetensors")))),
             Item(Key(2), NodeRecord("KSampler", In("latent_image", Ref(4)))),
             Item(Key(4), NodeRecord("VAEEncode", <<>>)),
             Item(Key(5), NodeRecord("LoraLoader", <<>>))>>),
   Mapping(<<Item(Key(1), NodeRecord("CheckpointLoaderSimple", <<>>)),
             Item(Key(2), NodeRecord("KSampler", <<>>))>>),
   [kind |-> "list", items |-> <<>>]}

\* the arguments of a call: the translator it is called on and the document
CallArguments ==
  {[ok |-> TRUE, value |-> d, translator |-> t] : d \in ConcurrentDocs, t \in {1, 2}}
  \cup {[ok |-> FALSE, value |-> Mapping(<<>>), translator |-> t] : t \in {1, 2}}

InitConcurrent ==
  /\ workflow \in [Calls -> CallArguments]
  /\ workflow[1].translator = 1
  /\ pc = [c \in Calls |-> "translate"]
  /\ graph = [o \in Calls |-> WorkflowGraph]
  /\ in_degree = [c \in Calls |-> <<>>]
  /\ queue = [c \in Calls |-> <<>>]
  /\ order = [c \in Calls |-> <<>>]
  /\ order_idx = [c \in Calls |-> 0]
  /\ patterns = [c \in Calls |-> <<>>]
  /\ result = [c \in Calls |-> NoResult]

TranslateCall ==
  \E call \in Calls : CallStep(call, "translate", TranslateStep(FrameOf(call)))
ParseCall ==
  \E call \in Calls : CallStep(call, "translate_dict", ParseStep(FrameOf(call)))
ResolveLinksCall ==
  \E call \in Calls : CallStep(call, "_resolve_links", ResolveLinksStep(FrameOf(call)))
AnalyzeGraphCall ==
  \E call \in Calls : CallStep(call, "_analyze_graph", AnalyzeGraphStep(FrameOf(call)))
ComputeExecutionOrderCall ==
  \E call \in Calls :
    CallStep(call, "_compute_execution_order", ComputeExecutionOrderStep(FrameOf(call)))
ScheduleNodeCall ==
  \E call \in Calls :
    queue[call] # <<>> /\ CallStep(call, "while queue", ScheduleNodeStep(FrameOf(call)))
FinishExecutionOrderCall ==
  \E call \in Calls :
    queue[call] = <<>> /\ CallStep(call, "while queue", FinishExecutionOrderStep(FrameOf(call)))
AnalyzeCall ==
  \E call \in Calls : CallStep(call, "analyze", AnalyzeStep(FrameOf(call)))
GenerateCall ==
  \E call \in Calls :
    /\ pc[call] = "generate"
    /\ \E iteration \in IterationOrders(ImportSet(patterns[call])) :
         CallStep(call, "generate", GenerateStep(FrameOf(call), iteration))

NextConcurrent ==
  \/ TranslateCall
  \/ ParseCall
  \/ ResolveLinksCall
  \/ AnalyzeGraphCall
  \/ ComputeExecutionOrderCall
  \/ ScheduleNodeCall
  \/ FinishExecutionOrderCall
  \/ AnalyzeCall
  \/ GenerateCall

SpecConcurrent == InitConcurrent /\ [][NextConcurrent]_vars

\* ---- a translation that runs alone ----
\* the frames the next statement of the frame f may leave
Successors(f) ==
  CASE f.pc = "translate" -> {TranslateStep(f)}
    [] f.pc = "translate_dict" -> {ParseStep(f)}
    [] f.pc = "_resolve_links" -> {ResolveLinksStep(f)}
    [] f.pc = "_analyze_graph" -> {AnalyzeGraphStep(f)}
    [] f.pc = "_compute_execution_order" -> {ComputeExecutionOrderStep(f)}
    [] f.pc = "while queue" ->
         {IF f.queue # <<>> THEN ScheduleNodeStep(f) ELSE FinishExecutionOrderStep(f)}
    [] f.pc = "analyze" -> {AnalyzeStep(f)}
    [] f.pc = "generate" ->
         {GenerateStep(f, iteration) : iteration \in IterationOrders(ImportSet(f.patterns))}
    [] OTHER -> {}

\* the frames a translation passes through from the frame f on
RECURSIVE RunAlone(_)
RunAlone(f) == {f} \cup UNION {RunAlone(g) : g \in Successors(f)}

(***************************************************************************)
(* Vocabulary of the properties.  It speaks of the graph through the link  *)
(* inputs of its nodes, not through the scheduler's bookkeeping.           *)
(***************************************************************************)
Nodes == 1..Len(graph.nodes)

\* parse has returned the graph
ParseReturned ==
  \/ pc \in {"analyze", "generate"}
  \/ pc = "returned" /\ workflow.ok
  \/ pc = "raised" /\ result.at \in {"_has_refiner", "_generate_model_loading"}

\* node j has a link input whose source is node i
LinksTo(i, j) ==
  \E k \in 1..Len(graph.nodes[j].inputs) :
     /\ graph.nodes[j].inputs[k].is_link
     /\ graph.nodes[j].inputs[k].source_node = graph.nodes[i].id

\* node j has a link input whose source is no node of the graph
HasDanglingLink(j) ==
  \E k \in 1..Len(graph.nodes[j].inputs) :
     /\ graph.nodes[j].inputs[k].is_link
     /\ ~HasNode(graph.nodes, graph.nodes[j].inputs[k].source_node)

\* the nodes reached from the set S by following one or more links forward
RECURSIVE Forward(_, _)
Forward(S, fuel) ==
  LET step == {j \in Nodes : \E i \in S : LinksTo(i, j)}
  IN IF fuel = 0 THEN step
     ELSE step \cup Forward(step, fuel - 1)

Descendants(i) == Forward({i}, Len(graph.nodes))

OnCycle(i) == i \in Descendants(i)

\* node j lies on a link cycle or depends on a node that lies on one
DependsOnCycle(j) == \E i \in Nodes : OnCycle(i) /\ (i = j \/ j \in Descendants(i))

InOrder(i) ==
  \E k \in 1..Len(graph.execution_order) : graph.execution_order[k] = graph.nodes[i].id

PositionOf(i) ==
  CHOOSE k \in 1..Len(graph.execution_order) : graph.execution_order[k] = graph.nodes[i].id

\* both nodes are in execution_order, i at a smaller index
Precedes(i, j) == InOrder(i) /\ InOrder(j) /\ PositionOf(i) < PositionOf(j)

NoDuplicates(q) == \A a, b \in 1..Len(q) : q[a] = q[b] => a = b

\* every link of the document names a node of the document
AllLinksResolve == \A j \in Nodes : ~HasDanglingLink(j)

(***************************************************************************)
(* C1 - topological correctness                                            *)
(***************************************************************************)
\* C1 as stated: after parse, for every link input of a node v whose source
\* is a node u of the graph, u appears before v in execution_order unless u
\* lies on a link cycle.  It is stated for the documents whose links all
\* resolve, so that a violation does not rest on a missing source.
C1_SourcePrecedesUnlessOnCycle ==
  (ParseReturned /\ AllLinksResolve) =>
    \A u, v \in Nodes : (LinksTo(u, v) /\ ~OnCycle(u)) => Precedes(u, v)

\* C1 amended: after parse, for every link input of a node v whose source is
\* a node u of the graph, if v is in execution_order then u is in it too, at
\* a smaller index.
C1_SourcePrecedesScheduledTarget ==
  ParseReturned =>
    \A u, v \in Nodes : (LinksTo(u, v) /\ InOrder(v)) => Precedes(u, v)

\* a scheduled node with a link input, next to a node left out of the order
C1_Witness ==
  /\ ParseReturned
  /\ \E u, v \in Nodes : LinksTo(u, v) /\ InOrder(v)
  /\ \E w \in Nodes : ~InOrder(w)

(***************************************************************************)
(* C2 - identifier tie-break                                               *)
(***************************************************************************)
\* the nodes that are ready: link-input count zero and not yet in the order
Ready ==
  {id \in DOMAIN in_degree : in_degree[id] = 0 /\ id \notin Range(order)}

\* C2: at every step of the scheduling loop the node appended to the order
\* is the smallest, by string comparison of the identifiers, of the nodes
\* that are ready at that step.
C2_SmallestReadyFirst ==
  [][(pc = "while queue" /\ Len(order') = Len(order) + 1) =>
       (/\ order'[Len(order')] \in Ready
        /\ \A id \in Ready \ {order'[Len(order')]} :
              StrLess(PyStr(order'[Len(order')]), PyStr(id)))]_vars

(***************************************************************************)
(* C3 - total order                                                        *)
(***************************************************************************)
\* the nodes without a link input, and the nodes reached from them
Roots == {i \in Nodes : ~has_linked_input(graph.nodes[i])}
ReachableFromRoots == Roots \cup Forward(Roots, Len(graph.nodes))

\* C3 as stated: execution_order holds no identifier twice and is a
\* permutation of exactly the nodes reachable from a root by following links
\* forward.  It is stated for the documents whose links all resolve, so that
\* a violation does not rest on a missing source.
C3_OrderIsReachableFromRoots ==
  (ParseReturned /\ AllLinksResolve) =>
    /\ NoDuplicates(graph.execution_order)
    /\ Range(graph.execution_order) = {graph.nodes[i].id : i \in ReachableFromRoots}

\* C3 amended: execution_order holds no identifier twice, every node in it is
\* reachable from a root by following links forward (roots included), and a
\* node is in it exactly when every one of its link inputs is a connection
\* of its source and that source is in it, at a smaller index.
C3_OrderIsSatisfiedNodes ==
  ParseReturned =>
    /\ NoDuplicates(graph.execution_order)
    /\ Range(graph.execution_order) \subseteq
         {graph.nodes[i].id : i \in ReachableFromRoots}
    /\ \A j \in Nodes :
         InOrder(j) <=>
           \A k \in 1..Len(graph.nodes[j].inputs) :
             graph.nodes[j].inputs[k].is_link =>
               \E i \in Nodes :
                 /\ graph.nodes[i].id = graph.nodes[j].inputs[k].source_node
                 /\ \E c \in 1..Len(graph.nodes[i].output_connections) :
                      /\ graph.nodes[i].output_connections[c].target = graph.nodes[j].id
                      /\ graph.nodes[i].output_connections[c].input =
                           graph.nodes[j].inputs[k].name
                 /\ InOrder(i)
                 /\ InOrder(j) => PositionOf(i) < PositionOf(j)

\* a node reachable from a root is left out although all links resolve
C3_Witness ==
  /\ ParseReturned
  /\ AllLinksResolve
  /\ Len(graph.execution_order) >= 1
  /\ \E j \in ReachableFromRoots : ~InOrder(j)

(***************************************************************************)
(* C4, C5 - the translator returns text                                    *)
(***************************************************************************)
\* C4: translate_dict returns a string and never raises for a document that
\* is a mapping of node records, whichever inputs are missing, links or of an
\* unexpected type.  Stated for the mappings with string keys.
C4_MappingNeverRaises ==
  (workflow.value.kind = "dict" /\ IsJson(workflow.value)) => result.kind # "raise"

\* the one-line texts that begin with "# Error:"
ErrorComments == {<<"# Error: Invalid JSON">>}

\* C5: when the document is not a mapping, the translator returns a
\* single-line comment beginning "# Error:" instead of raising.
C5_NonMappingReturnsErrorComment ==
  (workflow.ok /\ workflow.value.kind # "dict") =>
    /\ result.kind # "raise"
    /\ pc = "returned" => result.text \in ErrorComments

(***************************************************************************)
(* C6, C7 - dangling links                                                 *)
(***************************************************************************)
\* C6: a node is absent from execution_order, and keeps execution_order -1,
\* only if it lies on a link cycle or depends on a node that lies on one; a
\* node whose only unsatisfied link inputs are dangling is still scheduled.
C6_OnlyCyclesAreLeftOut ==
  ParseReturned =>
    \A j \in Nodes :
      (~InOrder(j) \/ graph.nodes[j].execution_order = -1) => DependsOnCycle(j)

\* C7: in the graph parse returns, every input recorded as a link names a
\* source node identifier that exists in graph.nodes.
C7_RecordedLinksResolve ==
  ParseReturned =>
    \A j \in Nodes : \A k \in 1..Len(graph.nodes[j].inputs) :
      graph.nodes[j].inputs[k].is_link =>
        HasNode(graph.nodes, graph.nodes[j].inputs[k].source_node)

(***************************************************************************)
(* C8 - cycles                                                             *)
(***************************************************************************)
\* C8: for a document with a link cycle, parse terminates without raising,
\* every node on the cycle is omitted from execution_order and has
\* execution_order -1, and the translation returns a program text.  Stated
\* for the mappings with string keys.
C8_CycleStillTranslates ==
  (IsJson(workflow.value) /\ \E i \in Nodes : OnCycle(i)) =>
    /\ result.kind # "raise"
    /\ ParseReturned =>
         \A i \in Nodes :
           OnCycle(i) => ~InOrder(i) /\ graph.nodes[i].execution_order = -1

(***************************************************************************)
(* C9 - the execution_order field                                          *)
(***************************************************************************)
\* C9: after parse, the execution_order field of a node equals the index of
\* its identifier in graph.execution_order for every node in that list, and
\* equals -1 exactly for the nodes that are not in the list.
C9_FieldIsIndex ==
  ParseReturned =>
    \A i \in Nodes :
      /\ InOrder(i) => graph.nodes[i].execution_order = PositionOf(i) - 1
      /\ ~InOrder(i) <=> graph.nodes[i].execution_order = -1

\* parse returned a graph with two scheduled nodes and one left out
C9_Witness ==
  /\ ParseReturned
  /\ Len(graph.execution_order) >= 2
  /\ \E i \in Nodes : ~InOrder(i) /\ graph.nodes[i].execution_order = -1
  /\ \E i \in Nodes : InOrder(i) /\ graph.nodes[i].execution_order = 1

(***************************************************************************)
(* C10 - identifiers are strings                                           *)
(***************************************************************************)
\* C10: every key of graph.nodes and every Node.id is the string form of the
\* document's key, a link that names a node by integer or by string resolves
\* to it, and scheduling completes.
C10_IdentifiersAreStrings ==
  /\ \A i \in Nodes : graph.nodes[i].id = StrA(PyStr(workflow.value.items[i].key))
  /\ ~(pc = "raised" /\ result.at = "queue.sort")
  /\ pc \notin {"translate", "translate_dict", "_resolve_links"} =>
       \A j \in Nodes : \A k \in 1..Len(graph.nodes[j].inputs) :
         LET inp == graph.nodes[j].inputs[k]
         IN (inp.is_link /\ \E i \in Nodes : PyStr(graph.nodes[i].id) = inp.source_node.c)
              => \E i \in Nodes :
                    \E c \in 1..Len(graph.nodes[i].output_connections) :
                       /\ graph.nodes[i].output_connections[c].target = graph.nodes[j].id
                       /\ graph.nodes[i].output_connections[c].input = inp.name

(***************************************************************************)
(* C11 - what counts as a link                                             *)
(***************************************************************************)
\* the document's value of input k of node i
DocValue(i, k) == workflow.value.items[i].data.inputs[k].value

\* a two-element array of a string or an integer and a non-negative integer
NonNegativeLinkShape(v) ==
  /\ v.t = "list"
  /\ Len(v.e) = 2
  /\ v.e[1].t \in {"str", "int"}
  /\ v.e[2].t = "int"
  /\ v.e[2].n >= 0

\* C11: _parse_input classifies an input value as a link if and only if it
\* is a two-element array whose first element is a string or an integer and
\* whose second element is a non-negative integer; every other value (a
\* negative or boolean second element, another length) is kept verbatim as a
\* literal.
C11_LinkIffNonNegativeIndex ==
  \A i \in Nodes : \A k \in 1..Len(graph.nodes[i].inputs) :
    /\ graph.nodes[i].inputs[k].is_link <=> NonNegativeLinkShape(DocValue(i, k))
    /\ ~NonNegativeLinkShape(DocValue(i, k)) =>
         (~graph.nodes[i].inputs[k].is_link /\ graph.nodes[i].inputs[k].value = DocValue(i, k))

(***************************************************************************)
(* C12, C13 - the generated program is well formed                         *)
(***************************************************************************)
\* the translation returned a program generated from a base pattern
ProgramReturned == pc = "returned" /\ BaseOf(patterns) # 0

\* C12: for every combination of base pattern and modifier patterns, no
\* keyword argument name occurs more than once in the inference call the
\* generated program makes (in particular for an img2img base combined with
\* ControlNet patterns).
C12_NoKeywordTwice ==
  ProgramReturned =>
    LET args == InferenceArgs(patterns[BaseOf(patterns)], patterns)
    IN \A a, b \in 1..Len(args) : args[a].name = args[b].name => a = b

\* C13: for every pattern list with a base pattern, every library name a
\* line of the generated main body uses is bound by an import statement of
\* the imports section or by an import line of the body before that line.
C13_EveryNameImported ==
  ProgramReturned =>
    \A iteration \in IterationOrders(ImportSet(patterns)) :
      LET program == _generate_imports(patterns, iteration) \o _generate_main(patterns).lines
      IN \A i \in 1..Len(program) :
           program[i].uses \subseteq UNION {program[j].binds : j \in 1..(i - 1)}

(***************************************************************************)
(* C14 - one base pattern                                                  *)
(***************************************************************************)
\* the positions of the nodes of the given classes
OfClasses(classes) == {i \in Nodes : graph.nodes[i].class_type \in classes}

\* analyze has returned its list
AnalyzeReturned == pc \in {"generate", "returned"} /\ workflow.ok

\* C14: at most one pattern whose type is txt2img, img2img or sdxl_refiner
\* is in the list analyze returns, for every graph, also one with several
\* checkpoint loaders and several samplers.
C14_AtMostOneBasePattern ==
  Cardinality({i \in 1..Len(patterns) : patterns[i].pattern_type \in BaseTypes}) <= 1

\* analyze returned a base pattern for a graph of two loaders and two samplers
C14_Witness ==
  /\ AnalyzeReturned
  /\ BaseOf(patterns) # 0
  /\ Cardinality(OfClasses({"CheckpointLoaderSimple", "CheckpointLoader",
                            "unCLIPCheckpointLoader"})) >= 2
  /\ Cardinality(OfClasses({"KSampler", "KSamplerAdvanced", "SamplerCustom"})) >= 2

(***************************************************************************)
(* C15 - repeated translation                                              *)
(***************************************************************************)
Finished(call) == pc[call] \in {"returned", "raised"}

\* analyze has returned the patterns of the call
AnalyzeReturnedIn(call) ==
  \/ pc[call] = "generate"
  \/ pc[call] = "returned" /\ workflow[call].ok
  \/ pc[call] = "raised" /\ result[call].at = "_generate_model_loading"

\* both calls translate the same well-formed document
SameDocument ==
  workflow[1].ok /\ workflow[2].ok /\ workflow[1].value = workflow[2].value

\* C15: two translations of the same well-formed document, on the same
\* translator or on two, return the same program text line by line (or raise
\* the same exception), and give the same execution_order, root_nodes,
\* terminal_nodes and patterns, whatever order the set of imports is read in.
C15_RepeatedTranslationIsEqual ==
  SameDocument =>
    /\ (Finished(1) /\ Finished(2)) => result[1] = result[2]
    /\ (AnalyzeReturnedIn(1) /\ AnalyzeReturnedIn(2)) =>
         /\ graph[GraphObject(1)].execution_order = graph[GraphObject(2)].execution_order
         /\ graph[GraphObject(1)].root_nodes = graph[GraphObject(2)].root_nodes
         /\ graph[GraphObject(1)].terminal_nodes = graph[GraphObject(2)].terminal_nodes
         /\ patterns[1] = patterns[2]

\* the same document with a canny ControlNet, whose program has seven import
\* lines, was translated twice on one translator and both programs returned
C15_Witness ==
  /\ SameDocument
  /\ workflow[1].translator = workflow[2].translator
  /\ pc[1] = "returned" /\ pc[2] = "returned"
  /\ OfType(patterns[1], {"controlnet"}) # <<>>
  /\ Cardinality(ImportSet(patterns[1])) > 2
  /\ Len(result[2].text) > 1

(***************************************************************************)
(* C16 - interleaved translations                                          *)
(***************************************************************************)
\* C16: when the statements of two translations are interleaved in any way,
\* on one translator or on two, the frame of each call (its position, graph,
\* scheduling locals, patterns and result) is at every moment a frame of the
\* translation of its document run alone; so each returns what it returns
\* when run alone and no statement reads or writes state of the other call.
C16_EachCallRunsAsAlone ==
  \A call \in Calls : FrameOf(call) \in RunAlone(StartFrame(workflow[call]))

\* on one translator, call 1 has returned a program while call 2, on another
\* document, is in the middle of the scheduling loop
C16_Witness ==
  /\ workflow[1].translator = workflow[2].translator
  /\ workflow[1].value # workflow[2].value
  /\ pc[1] = "returned" /\ Len(result[1].text) > 1
  /\ pc[2] = "while queue" /\ order[2] # <<>> /\ queue[2] # <<>>

(***************************************************************************)
(* C17 - no base pattern                                                   *)
(***************************************************************************)
\* translate_dict returned and analyze found no base pattern
NoBaseReturned == pc = "returned" /\ workflow.ok /\ BaseOf(patterns) = 0

\* the first three sections of the program and the empty line after each
HeadSections ==
  Text(_generate_header(patterns)) \o <<"">>
  \o Text(_generate_imports(patterns, ByText(ImportSet(patterns)))) \o <<"">>
  \o Text(_generate_config(patterns)) \o <<"">>

SaveTexts ==
  {"# Save output", "image.save(\"output.png\")", "print(\"Saved to output.png\")"}

\* C17: without a base pattern the program is the header, the imports and
\* the configuration, each followed by an empty line, and then the one line
\* '# Could not detect base generation pattern'; it has no model-loading,
\* inference or save line.
C17_PlaceholderBody ==
  NoBaseReturned =>
    /\ result.text = HeadSections \o <<"# Could not detect base generation pattern">>
    /\ \A k \in 1..Len(result.text) :
         result.text[k] \notin
           SaveTexts \cup {"# Setup", "# Load model", "pipe.to(device)",
                           "# Generate image", "image = pipe(", ").images[0]"}

\* a program for a document with a ControlNet and an up-scale but no
\* checkpoint loader and sampler
C17_Witness ==
  /\ NoBaseReturned
  /\ OfType(patterns, {"controlnet"}) # <<>>
  /\ OfType(patterns, {"upscale"}) # <<>>

(***************************************************************************)
(* C18 - the sections of a program with a base pattern                     *)
(***************************************************************************)
\* the lines of the inference call and of the up-scaling
InferenceAndUpscaleTexts ==
  LET inference == Text(_generate_inference(patterns[BaseOf(patterns)], patterns))
      upscales == OfType(patterns, {"upscale"})
      upscaling == IF upscales = <<>> THEN <<>> ELSE Text(_generate_upscaling(upscales))
  IN ({inference[k] : k \in 1..Len(inference)}
      \cup {upscaling[k] : k \in 1..Len(upscaling)}) \ {""}

\* C18: a program with a base pattern is the header, the imports, the
\* configuration, the main body that starts with '# Setup', and the three
\* save lines, in this order with an empty line between consecutive
\* sections; every inference and up-scaling line lies in the main body,
\* before the save lines, and the save lines occur nowhere else.
C18_FiveSectionsSaveLast ==
  ProgramReturned =>
    LET t == result.text
        n == Len(t)
        h == Len(HeadSections)
    IN /\ n >= h + 5
       /\ SubSeq(t, 1, h) = HeadSections
       /\ t[h + 1] = "# Setup"
       /\ SubSeq(t, n - 3, n) = <<"", "# Save output", "image.save(\"output.png\")",
                                  "print(\"Saved to output.png\")">>
       /\ \E k \in 1..n : t[k] = "image = pipe("
       /\ \A k \in 1..n : t[k] \in InferenceAndUpscaleTexts => (h < k /\ k < n - 3)
       /\ \A k \in 1..(n - 3) : t[k] \notin SaveTexts

\* a program with a base pattern, a LoRA and an up-scale
C18_Witness ==
  /\ ProgramReturned
  /\ OfType(patterns, {"upscale"}) # <<>>
  /\ OfType(patterns, {"lora"}) # <<>>

(***************************************************************************)
(* C19 - documents of unknown classes only                                 *)
(***************************************************************************)
\* no class of the document is in a registry
NoRegisteredClass ==
  \A i \in Nodes : get_node_category(graph.nodes[i].class_type) = "other"

\* C19 as stated: for a document none of whose classes is in a registry,
\* analyze returns no pattern, the header has no '# Type:' line and the
\* program ends with the placeholder comment.
C19_UnknownClassesNoPattern ==
  (pc = "returned" /\ workflow.ok /\ NoRegisteredClass) =>
    /\ patterns = <<>>
    /\ \A k \in 1..Len(result.text) :
         result.text[k] \notin {"# Type: " \o b : b \in BaseTypes}
    /\ result.text[Len(result.text)] = "# Could not detect base generation pattern"

(***************************************************************************)
(* C20 - extraction of the sampler literals                                *)
(***************************************************************************)
DocItems == workflow.value.items

\* the position of the first item of one of the classes, 0 if none
DocFirstOfClass(classes) ==
  LET hits == {i \in 1..Len(DocItems) :
                 DocItems[i].data.has_class /\ DocItems[i].data.class_type \in classes}
  IN IF hits = {} THEN 0 ELSE CHOOSE i \in hits : \A j \in hits : i <= j

\* the position of the input of item i called name, 0 if absent
DocInputAt(i, name) ==
  LET hits == {k \in 1..Len(DocItems[i].data.inputs) : DocItems[i].data.inputs[k].name = name}
  IN IF hits = {} THEN 0 ELSE CHOOSE k \in hits : TRUE

\* item i has the input as a literal: present, and not a two-element array of
\* a string or integer and a non-negative integer
HasLiteral(i, name) ==
  /\ DocInputAt(i, name) # 0
  /\ ~NonNegativeLinkShape(DocItems[i].data.inputs[DocInputAt(i, name)].value)

\* the literal of the document, or the default
Expected(i, name, default) ==
  IF HasLiteral(i, name) THEN DocItems[i].data.inputs[DocInputAt(i, name)].value ELSE default

\* the item latent_image of the sampler links to, 0 if none
DocLatent(sampler) ==
  LET k == DocInputAt(sampler, "latent_image")
      v == DocItems[sampler].data.inputs[k].value
      hits == {j \in 1..Len(DocItems) : DocItems[j].key = v.e[1]}
  IN IF k = 0 THEN 0
     ELSE IF ~NonNegativeLinkShape(v) \/ hits = {} THEN 0
     ELSE CHOOSE j \in hits : TRUE

\* C20 as stated: each sampler key of the base config is the literal of the
\* document when the sampler has the input as a literal, and the default
\* (20, 7.5, "euler", "normal", 0, 1.0) when the input is absent or a link;
\* width, height and batch_size are the literals of the EmptyLatentImage
\* that latent_image links to.
C20_SamplerLiteralsVerbatim ==
  (AnalyzeReturned /\ BaseOf(patterns) # 0) =>
    LET config == patterns[BaseOf(patterns)].config
        sampler == DocFirstOfClass({"KSampler", "KSamplerAdvanced", "SamplerCustom"})
        latent == DocLatent(sampler)
    IN /\ config.steps = Expected(sampler, "steps", IntV(20))
       /\ config.cfg = Expected(sampler, "cfg", FloatV(75))
       /\ config.sampler = Expected(sampler, "sampler_name", StrV("euler"))
       /\ config.scheduler = Expected(sampler, "scheduler", StrV("normal"))
       /\ config.seed = Expected(sampler, "seed", IntV(0))
       /\ config.denoise = Expected(sampler, "denoise", FloatV(10))
       /\ (latent # 0 /\ DocItems[latent].data.class_type = "EmptyLatentImage") =>
            \A key \in {"width", "height", "batch_size"} :
               HasLiteral(latent, key) =>
                 /\ key \in DOMAIN config
                 /\ config[key] = Expected(latent, key, NoneV)

(***************************************************************************)
(* C21 - renaming of the node identifiers                                  *)
(***************************************************************************)
\* the position of the item whose key prints as the identifier a, 0 if none
DocPositionOf(items, a) ==
  LET hits == {p \in 1..Len(items) : PyStr(items[p].key) = PyStr(a)}
  IN IF hits = {} THEN 0 ELSE CHOOSE p \in hits : \A q \in hits : p <= q

\* three injective maps of the identifiers of a document: the key with the
\* letter a appended; the letters z, y, x, ... in document order, which turns
\* the order of the identifiers round; the integers 1, 2, 3, ...
Renamings == {"suffix", "reverse", "integer"}

\* the new identifier of the key at position p
NewId(kind, key, p) ==
  CASE kind = "suffix" -> StrA(PyStr(key) \o <<97>>)
    [] kind = "reverse" -> StrA(<<123 - p>>)
    [] OTHER -> IntA(p)

\* an input value, with the reference to a node of the document rewritten
RenameValue(kind, items, v) ==
  IF /\ v.t = "list"
     /\ Len(v.e) = 2
     /\ v.e[1].t \in {"str", "int"}
     /\ DocPositionOf(items, v.e[1]) # 0
  THEN LET p == DocPositionOf(items, v.e[1])
       IN [v EXCEPT !.e[1] = NewId(kind, items[p].key, p)]
  ELSE v

\* the items of the renamed document, in the same order
Rename(kind, items) ==
  [p \in 1..Len(items) |->
     [key |-> NewId(kind, items[p].key, p),
      data |-> [items[p].data EXCEPT !.inputs =
                  [k \in 1..Len(items[p].data.inputs) |->
                     [name |-> items[p].data.inputs[k].name,
                      value |-> RenameValue(kind, items, items[p].data.inputs[k].value)]]]]]

\* graph.nodes after the first pass of parse
ParsedNodes(items) == [i \in 1..Len(items) |-> _parse_node(items[i].key, items[i].data)]

\* C21 as stated: for a document with string keys and each of the renamings,
\* analyze of the renamed document returns patterns of the same types and
\* configs in the same order, and their node lists are the renamed node
\* lists of the original.
C21_RenamingKeepsPatterns ==
  (AnalyzeReturned /\ IsJson(workflow.value)) =>
    \A kind \in Renamings :
      LET items == workflow.value.items
          renamed == analyze(ParsedNodes(Rename(kind, items)))
      IN /\ renamed.kind = "list"
         /\ Len(renamed.patterns) = Len(patterns)
         /\ \A i \in 1..Len(patterns) :
              /\ renamed.patterns[i].pattern_type = patterns[i].pattern_type
              /\ renamed.patterns[i].config = patterns[i].config
              /\ renamed.patterns[i].nodes =
                   [k \in 1..Len(patterns[i].nodes) |->
                      LET p == DocPositionOf(items, patterns[i].nodes[k])
                      IN NewId(kind, items[p].key, p)]

(***************************************************************************)
(* C22 - parsing a document twice                                          *)
(***************************************************************************)
\* parse has returned the graph of the call
ParseReturnedIn(call) ==
  \/ pc[call] \in {"analyze", "generate"}
  \/ pc[call] = "returned" /\ workflow[call].ok
  \/ pc[call] = "raised" /\ result[call].at \in {"_has_refiner", "_generate_model_loading"}

\* the frame in which parse returns or raises, for a call that runs alone
RECURSIVE ParseAlone(_)
ParseAlone(f) ==
  IF f.pc \in {"analyze", "raised", "returned"} THEN f
  ELSE ParseAlone(CHOOSE g \in Successors(f) : TRUE)

\* C22: when the same document was parsed twice, by the same parser or by
\* two, the two graphs are equal in their nodes (inputs, output_connections
\* and execution_order fields included), root_nodes, terminal_nodes and
\* execution_order; and the graph a parse has returned is and stays the graph
\* of a single parse of its document, whatever other parse runs before,
\* meanwhile or afterwards: no connection or list entry of another parse is
\* in it.
C22_ParsingTwiceGivesEqualGraphs ==
  /\ (SameDocument /\ ParseReturnedIn(1) /\ ParseReturnedIn(2)) =>
       FrameOf(1).graph = FrameOf(2).graph
  /\ \A call \in Calls :
       ParseReturnedIn(call) =>
         FrameOf(call).graph = ParseAlone(StartFrame(workflow[call])).graph

\* the document with links was parsed twice by the same parser; the graph of
\* the first parse is still held while the second has returned
C22_Witness ==
  /\ SameDocument
  /\ workflow[1].translator = workflow[2].translator
  /\ pc[1] = "analyze" /\ pc[2] = "analyze"
  /\ \E i \in 1..Len(graph[GraphObject(2)].nodes) :
       graph[GraphObject(2)].nodes[i].output_connections # <<>>
  /\ Len(graph[GraphObject(1)].execution_order) > 1

(***************************************************************************)
(* C23 - root and terminal nodes                                           *)
(***************************************************************************)
\* C23: after parse, a node identifier is in graph.root_nodes if and only if
\* none of the node's inputs is a link, and is in graph.terminal_nodes if and
\* only if the node has no outgoing connections or its class_type is in
\* OUTPUT_NODES; each list holds an identifier at most once.
C23_RootsAndTerminals ==
  ParseReturned =>
    /\ \A i \in Nodes :
         /\ graph.nodes[i].id \in Range(graph.root_nodes) <=>
              \A k \in 1..Len(graph.nodes[i].inputs) : ~graph.nodes[i].inputs[k].is_link
         /\ graph.nodes[i].id \in Range(graph.terminal_nodes) <=>
              \/ Len(graph.nodes[i].output_connections) = 0
              \/ graph.nodes[i].class_type \in OUTPUT_NODES
    /\ Range(graph.root_nodes) \cup Range(graph.terminal_nodes) \subseteq
         {graph.nodes[i].id : i \in Nodes}
    /\ NoDuplicates(graph.root_nodes)
    /\ NoDuplicates(graph.terminal_nodes)

\* parse returned a graph in which a node of an output class feeds another
\* node and is terminal all the same, and a node with a link input is no root
C23_Witness ==
  /\ ParseReturned
  /\ \E i \in Nodes :
       /\ graph.nodes[i].class_type = "SaveImage"
       /\ Len(graph.nodes[i].output_connections) = 2
       /\ graph.nodes[i].id \in Range(graph.terminal_nodes)
       /\ graph.nodes[i].id \in Range(graph.root_nodes)
  /\ \E j \in Nodes :
       /\ graph.nodes[j].id \notin Range(graph.root_nodes)
       /\ graph.nodes[j].id \in Range(graph.terminal_nodes)
  /\ Len(graph.terminal_nodes) = 2

(***************************************************************************)
(* C24 - output_connections                                                *)
(***************************************************************************)
\* the number of entries of u's output_connections that are (v, name, idx)
ConnectionCount(u, v, name, idx) ==
  Cardinality({c \in 1..Len(graph.nodes[u].output_connections) :
                 graph.nodes[u].output_connections[c] =
                   [target |-> graph.nodes[v].id, input |-> name, output |-> idx]})

\* C24: for every node u of the graph, (v, name, idx) is in
\* u.output_connections exactly once if and only if node v has an input
\* called name that is a link with source u and output index idx; links
\* whose source is not in the graph add no connection anywhere.  Stated for
\* the documents json.loads can give, whose keys are strings.
C24_ConnectionsAreTheLinks ==
  (ParseReturned /\ IsJson(workflow.value)) =>
    \A u \in Nodes :
      /\ \A v \in Nodes : \A k \in 1..Len(graph.nodes[v].inputs) :
           LET inp == graph.nodes[v].inputs[k]
           IN (inp.is_link /\ inp.source_node = graph.nodes[u].id) =>
                ConnectionCount(u, v, inp.name, inp.source_output) = 1
      /\ \A c \in 1..Len(graph.nodes[u].output_connections) :
           LET conn == graph.nodes[u].output_connections[c]
           IN \E v \in Nodes : \E k \in 1..Len(graph.nodes[v].inputs) :
                /\ graph.nodes[v].id = conn.target
                /\ graph.nodes[v].inputs[k].name = conn.input
                /\ graph.nodes[v].inputs[k].is_link
                /\ graph.nodes[v].inputs[k].source_node = graph.nodes[u].id
                /\ graph.nodes[v].inputs[k].source_output = conn.output
                /\ ConnectionCount(u, v, conn.input, conn.output) = 1

(***************************************************************************)
(* C25 - when a base pattern is emitted                                    *)
(***************************************************************************)
\* the positions of the checkpoint loaders and of the samplers of the graph
CheckpointLoaders ==
  OfClasses({"CheckpointLoaderSimple", "CheckpointLoader", "unCLIPCheckpointLoader"})

Samplers == OfClasses({"KSampler", "KSamplerAdvanced", "SamplerCustom"})

\* the smallest position of a non-empty set of positions
FirstPosition(S) == CHOOSE i \in S : \A j \in S : i <= j

\* analyze has run to its end: it returned its list, or it raised
AnalyzeEnded == ParseReturned /\ pc # "analyze"

\* C25: PatternRecognizer.analyze emits a base pattern if and only if the
\* graph holds at least one checkpoint loader (CheckpointLoaderSimple,
\* CheckpointLoader, unCLIPCheckpointLoader) and at least one sampler
\* (KSampler, KSamplerAdvanced, SamplerCustom); the pattern is built from the
\* first checkpoint loader and the first sampler in graph-iteration order and
\* lists exactly those two node identifiers.
C25_BaseIffLoaderAndSampler ==
  AnalyzeEnded =>
    /\ BaseOf(patterns) # 0 <=> (CheckpointLoaders # {} /\ Samplers # {})
    /\ BaseOf(patterns) # 0 =>
         LET base == patterns[BaseOf(patterns)]
             loader == graph.nodes[FirstPosition(CheckpointLoaders)]
             sampler == graph.nodes[FirstPosition(Samplers)]
         IN /\ base.nodes = <<loader.id, sampler.id>>
            /\ base.config["checkpoint"] = _get_input_value(loader, "ckpt_name", NoneV)
            /\ base.config["steps"] = _get_input_value(sampler, "steps", IntV(20))

(***************************************************************************)
(* C26 - the refiner cascade                                               *)
(***************************************************************************)
\* node i has a literal start_at_step that is a number greater than 0
LiteralStartAboveZero(i) ==
  \E k \in 1..Len(graph.nodes[i].inputs) :
     LET inp == graph.nodes[i].inputs[k]
     IN /\ inp.name = "start_at_step"
        /\ ~inp.is_link
        /\ inp.value.t \in {"int", "float", "bool"}
        /\ inp.value.n > 0

\* two or more checkpoint loaders of the classes of the base detection, or a
\* KSamplerAdvanced that starts after step 0
RefinerCascade ==
  \/ Cardinality(CheckpointLoaders) >= 2
  \/ \E i \in OfClasses({"KSamplerAdvanced"}) : LiteralStartAboveZero(i)

\* C26: the base pattern is promoted to sdxl_refiner with has_refiner = true
\* if and only if the graph has two or more checkpoint loaders (of any of the
\* checkpoint-loader classes used for base detection, unCLIPCheckpointLoader
\* included) or some KSamplerAdvanced with a literal start_at_step greater
\* than 0; otherwise has_refiner is not set.
C26_RefinerIffCascade ==
  (AnalyzeReturned /\ BaseOf(patterns) # 0) =>
    LET base == patterns[BaseOf(patterns)]
    IN /\ base.pattern_type = "sdxl_refiner" <=> RefinerCascade
       /\ RefinerCascade =>
            /\ "has_refiner" \in DOMAIN base.config
            /\ base.config["has_refiner"] = BoolV(TRUE)
       /\ ~RefinerCascade => "has_refiner" \notin DOMAIN base.config

(***************************************************************************)
(* C27 - txt2img or img2img                                                *)
(***************************************************************************)
\* the latent_image input of node i is a link whose source is a node of the
\* graph of class VAEEncode or VAEEncodeForInpaint
LatentFromEncoder(i) ==
  \E k \in 1..Len(graph.nodes[i].inputs) :
     /\ graph.nodes[i].inputs[k].name = "latent_image"
     /\ graph.nodes[i].inputs[k].is_link
     /\ \E j \in OfClasses({"VAEEncode", "VAEEncodeForInpaint"}) :
          graph.nodes[j].id = graph.nodes[i].inputs[k].source_node

\* C27: for a graph without a refiner cascade, the base pattern type is
\* img2img if and only if the first sampler's latent_image input is a link
\* whose source node exists and has class VAEEncode or VAEEncodeForInpaint;
\* in every other case (input absent, literal, dangling, or linked to another
\* class) it is txt2img.
C27_Img2ImgIffLatentFromEncoder ==
  (AnalyzeReturned /\ BaseOf(patterns) # 0 /\ ~RefinerCascade) =>
    patterns[BaseOf(patterns)].pattern_type =
      IF LatentFromEncoder(FirstPosition(Samplers)) THEN "img2img" ELSE "txt2img"

\* the input latent_image of the first sampler of the graph, 0 when absent
FirstSamplerLatent == InputIndex(graph.nodes[FirstPosition(Samplers)], "latent_image")

\* analyze returned img2img for a sampler that has another link input before
\* the latent_image that comes from a VAEEncodeForInpaint
C27_Witness ==
  /\ AnalyzeReturned
  /\ BaseOf(patterns) # 0
  /\ patterns[BaseOf(patterns)].pattern_type = "img2img"
  /\ FirstSamplerLatent = 2
  /\ \E j \in OfClasses({"VAEEncodeForInpaint"}) :
       graph.nodes[j].id =
         graph.nodes[FirstPosition(Samplers)].inputs[FirstSamplerLatent].source_node

(***************************************************************************)
(* C28 - the order of the returned list                                    *)
(***************************************************************************)
\* the place of a pattern type in the list: base, controlnet, ipadapter,
\* lora, upscale, inpaint
GroupOf(pattern_type) ==
  CASE pattern_type \in BaseTypes -> 0
    [] pattern_type = "controlnet" -> 1
    [] pattern_type = "ipadapter" -> 2
    [] pattern_type = "lora" -> 3
    [] pattern_type = "upscale" -> 4
    [] OTHER -> 5

\* the position in graph.nodes of the node a modifier pattern was found at
NodePositionOf(pattern) == IndexOf(graph.nodes, pattern.nodes[1])

\* C28: the list returned by PatternRecognizer.analyze is ordered: the base
\* pattern first (if any), then all controlnet matches, then ipadapter, lora,
\* upscale and inpaint matches, and within each of these groups (the upscale
\* group included, latent and model-based up-scales together) the matches
\* follow graph-iteration order of their nodes.
C28_ListOrder ==
  AnalyzeReturned =>
    \A a, b \in 1..Len(patterns) :
      a < b =>
        /\ GroupOf(patterns[a].pattern_type) <= GroupOf(patterns[b].pattern_type)
        /\ (/\ GroupOf(patterns[a].pattern_type) = GroupOf(patterns[b].pattern_type)
            /\ GroupOf(patterns[a].pattern_type) # 0)
             => NodePositionOf(patterns[a]) < NodePositionOf(patterns[b])

(***************************************************************************)
(* C29 - the order of the imports section                                  *)
(***************************************************************************)
\* line a is before line b in the order of the claim: the lines that are not
\* of the form 'import X' first, lines of the same form by their text
FromLinesFirst(a, b) ==
  \/ ~StartsWithImport(a.c) /\ StartsWithImport(b.c)
  \/ StartsWithImport(a.c) = StartsWithImport(b.c) /\ StrLess(a.c, b.c)

\* C29: the imports section lists each import line once and in sorted order,
\* where lines that are not of the form 'import X' (the 'from ... import ...'
\* lines) come before the 'import X' lines, and lines of the same form are in
\* ascending lexicographic order.
C29_FromLinesBeforeImportLines ==
  AnalyzeReturned =>
    \A iteration \in IterationOrders(ImportSet(patterns)) :
      LET lines == SortImports(iteration)
      IN /\ Len(lines) = Len(_generate_imports(patterns, iteration))
         /\ \A a, b \in 1..Len(lines) :
              /\ lines[a].text = _generate_imports(patterns, iteration)[a].text
              /\ a < b => FromLinesFirst(lines[a], lines[b])

(***************************************************************************)
(* C30 - the ControlNet arguments of the inference call                    *)
(***************************************************************************)
\* the position of the first line of the returned program that is in the
\* set of texts, 0 when there is none
FirstLineIn(texts) ==
  IF \E p \in 1..Len(result.text) : result.text[p] \in texts
  THEN CHOOSE p \in 1..Len(result.text) :
         /\ result.text[p] \in texts
         /\ \A q \in 1..(p - 1) : result.text[q] \notin texts
  ELSE 0

\* name_0, name_1, ... for k names, as the items of a list
RECURSIVE NameList(_, _, _)
NameList(prefix, suffix, k) ==
  IF k = 1 THEN prefix \o "0" \o suffix
  ELSE NameList(prefix, suffix, k - 1) \o ", " \o prefix \o ToString(k - 1) \o suffix

\* the value of a keyword argument that names k ControlNets: the scalar for
\* one, the list for more
ScalarOrList(prefix, suffix, k) ==
  IF k = 1 THEN prefix \o "0" \o suffix ELSE "[" \o NameList(prefix, suffix, k) \o "]"

\* the assignments to control_image_i, CONTROLNET_i_STRENGTH and controlnet_i
\* that the checked documents can give
ControlImageAssignments(i) ==
  {"control_image_" \o ToString(i) \o rhs :
     rhs \in {" = Image.fromarray(control_array)", " = depth  # Process as needed",
              " = openpose(control_image)", " = control_image  # Preprocessor: None",
              " = control_image  # Preprocessor: lineart"}}

StrengthAssignments(i) ==
  {"CONTROLNET_" \o ToString(i) \o "_STRENGTH = " \o v : v \in {"0.8", "1.0"}}

ControlNetAssignments(i) ==
  {"controlnet_" \o ToString(i) \o " = ControlNetModel.from_pretrained(\"" \o m
     \o "\", torch_dtype=dtype)" : m \in {"control_v11p.pth", "None"}}

\* the number of ControlNet patterns analyze returned
ControlNetCount == Len(OfType(patterns, {"controlnet"}))

\* the lines of the pipe(...) call and of the pipeline constructor that name
\* k ControlNets
ControlImagesLine(k) == "    image=" \o ScalarOrList("control_image_", "", k) \o ","

ConditioningScalesLine(k) ==
  "    controlnet_conditioning_scale=" \o ScalarOrList("CONTROLNET_", "_STRENGTH", k) \o ","

ControlNetsLine(k) == "    controlnet=" \o ScalarOrList("controlnet_", "", k) \o ","

\* C30: for k >= 2 ControlNet patterns with a base pattern, the inference
\* call lists exactly k control images and exactly k conditioning scales, the
\* i-th of each referring to ControlNet i, and every name they reference
\* (control_image_i, CONTROLNET_i_STRENGTH) as well as every controlnet_i
\* passed to the pipeline is defined earlier in the program for each i in
\* 0..k-1; the same holds for k = 1 with scalar arguments.
C30_ControlNetNamesDefined ==
  (ProgramReturned /\ ControlNetCount >= 1) =>
    LET k == ControlNetCount
        images == FirstLineIn({ControlImagesLine(k)})
        scales == FirstLineIn({ConditioningScalesLine(k)})
        models == FirstLineIn({ControlNetsLine(k)})
        call == FirstLineIn({"image = pipe("})
    IN /\ call # 0
       /\ call < images
       /\ images < scales
       /\ models # 0
       /\ \A j \in 1..3 : j # k =>
            /\ FirstLineIn({ControlImagesLine(j)}) = 0
            /\ FirstLineIn({ConditioningScalesLine(j)}) = 0
       /\ \A i \in 0..(k - 1) :
            /\ FirstLineIn(ControlImageAssignments(i)) \in 1..(images - 1)
            /\ FirstLineIn(StrengthAssignments(i)) \in 1..(scales - 1)
            /\ FirstLineIn(ControlNetAssignments(i)) \in 1..(models - 1)

\* a program was returned for three ControlNets and an img2img base
C30_Witness ==
  /\ ProgramReturned
  /\ ControlNetCount = 3
  /\ patterns[BaseOf(patterns)].pattern_type = "img2img"
  /\ FirstLineIn({"    image=[control_image_0, control_image_1, control_image_2],"}) # 0
  /\ FirstLineIn({"control_image_2 = depth  # Process as needed"}) # 0

====
